---- MODULE Spec2Model ----
(***************************************************************************)
(* A model of eventlog_ops:                                                *)
(*   - the synchronous run of eventlog_operations_v4.py (launch_tools,     *)
(*     monitor_tools, rerun_failed_tools as called by main),               *)
(*   - the artifact cache (describe_artifact),                             *)
(*   - the query layer of mcp/server.py (query_hayabusa,                   *)
(*     get_merged_timeline and their helpers),                             *)
(*   - the job registry of mcp/server.py (run_analysis, its reaper,        *)
(*     cancel_run).                                                        *)
(* Each subsystem has its own specification (SpecRun, SpecCache,           *)
(* SpecQuery, SpecJobs); the variables of the other subsystems stay at     *)
(* their initial value.  SpecLaunch is the run on a host where a spawn may *)
(* fail, SpecCase the query layer on a case that may lack its reports,     *)
(* SpecStart run_analysis on every host, and SpecFn the helpers            *)
(* _time_in_range and the log tail called on their own.  SpecProgress is   *)
(* monitor_tools with its progress lines, SpecIds run_analysis with the    *)
(* identifier it draws, SpecOutput the registry with the jobs' output, and *)
(* SpecStatus get_run_status racing with the other threads.  SpecRunLive,  *)
(* SpecJobsLive and SpecStatusLive add the fairness of the threads.        *)
(*                                                                         *)
(* Python's Optional[int] is modelled as a set: {} is None, {n} is n.      *)
(***************************************************************************)
EXTENDS Integers, Sequences, FiniteSets, TLC

(***************************************************************************)
(* Bounds of the model.                                                    *)
(***************************************************************************)
\* exit codes a tool process may end with are 0..MaxExitCode
MaxExitCode == 1
\* the filesystem clock stops at MaxClock (so at most MaxClock timed writes)
MaxClock == 3
\* a file grows to at most MaxSize bytes
MaxSize == 1
\* at most MaxCalls top-level describe_artifact calls
MaxCalls == 2
\* the report files of a case hold at most MaxRows rows together
MaxRows == 2
\* run_analysis is called at most MaxJobs times
MaxJobs == 2
\* _MAX_FINISHED_JOBS, 50 in mcp/server.py, scaled to the jobs of the model
MAX_FINISHED_JOBS == 1
\* a log or a job's output holds at most MaxLines lines
MaxLines == 2
\* the specification of get_run_status starts at most MaxPolled jobs
MaxPolled == 1
\* progress_interval of monitor_tools, 5.0 s, in sleeps of 0.5 s, scaled
ProgressInterval == 2
\* the clock monitor_tools reads stops at MaxTime (in sleeps of 0.5 s)
MaxTime == 5
\* the tools write to their reports at most MaxWrites times together
MaxWrites == 3

VARIABLES
    \* ---- synchronous run (eventlog_operations_v4.py) ----
    pc,              \* position of main / monitor_tools / rerun_failed_tools
    enable_retry,    \* args.retry_failed
    process,         \* tool.process: state of the first-pass process of each tool
    exit_status,     \* the exit status of each first-pass process, {} while it runs
    return_code,     \* tool.return_code
    running,         \* monitor_tools: set of names not yet seen finished
    finished_order,  \* monitor_tools: names in the order they were seen finished
    idx,             \* index of the for loop the run is in
    printed,         \* the 'Finished tools: ...' lines printed so far
    exit_order,      \* tools in the order their first-pass processes exited
    failed,          \* rerun_failed_tools: the tools to retry
    remaining_failures,
    retry_process,   \* state of the subprocess.run child of each tool
    retried,         \* names printed by 'Retrying <name>...', in order
    returned,        \* the value rerun_failed_tools returned, {} before
    current_time,    \* monitor_tools: time.time() as the loop last read it,
                     \* in sleeps of 0.5 s
    last_progress_print,
    previous_snapshot, \* per tool, {} (no entry) or {<<status, size>>}
    artifact_bytes,  \* per tool, the bytes of its reports on disk
    progress_out,    \* the tools named in the progress line of the last
                     \* sampling, {} if it printed none
    last_printed,    \* per tool, {} or {the state last printed for it}
    \* ---- artifact cache (eventlog_operations_v4.py) ----
    fs,              \* the filesystem: per path, existence, mtime, size, content
    now,             \* the filesystem's clock
    ARTIFACT_CACHE,  \* path -> <<signature, summary>>
    ncalls,          \* number of top-level describe_artifact calls made
    last_call,       \* the last top-level call: path, summary, what it computed
    described,       \* per path, {<<signature, summary>>} of its latest describe
    \* ---- query layer (mcp/server.py) ----
    hayabusa_csv,    \* the rows of <case>_hayabusa_output.csv
    chainsaw_csvs,   \* per group file of <case>_chainsaw_output, its rows
    timesketch_csv,  \* the rows of <case>_apt_hunter_output_TimeSketch.csv
    present,         \* what of the case is on disk: the output directory,
                     \* each tool's report, the Hayabusa log
    response,        \* the last query against the files as they are: its
                     \* name, its arguments and the document it returned
    \* ---- job registry (mcp/server.py) ----
    JOBS,            \* _JOBS: job_id -> job entry
    launched,        \* number of jobs run_analysis has started
    server_alive,    \* the server process runs
    os_proc,         \* per job, its top-level process: none, running,
                     \* zombie (exited, not waited for) or reaped
    exit_code,       \* per job, what its process exited with, {} before
    signalled,       \* per job, the last signal its running process was sent
    reaper,          \* per job, the position of its _reaper thread
    cancel_pc,       \* the position of the cancel_run call in progress
    cancel_call,     \* that call: its job_id and whether the process had
                     \* exited when it was made
    cancel_response, \* what the last cancel_run call returned
    run_response,    \* what the last run_analysis call returned or raised
    job_key,         \* per process started, the job_id it was registered
                     \* under (the job_id its _reaper holds), 0 before
    pipe,            \* per process started, the lines it has written to
                     \* stdout and stderr that no drain thread has read yet
    output_lines,    \* per process started, the list its drain threads
                     \* append to: 'output_lines' of its registry entry
    lock,            \* the thread inside a 'with _JOBS_LOCK' block that the
                     \* model takes in several steps, "none" otherwise
    status_call,     \* the get_run_status call in progress: its position,
                     \* its arguments and what it has read so far
    status_response, \* what the last get_run_status call returned
    \* ---- helpers of mcp/server.py called on their own ----
    fn_call,         \* the helper called and its arguments
    fn_value         \* {} before the call returns, then {the value returned}

runVars == <<pc, enable_retry, process, exit_status, return_code, running,
             finished_order, idx, printed, exit_order, failed,
             remaining_failures, retry_process, retried, returned>>

cacheVars == <<fs, now, ARTIFACT_CACHE, ncalls, last_call, described>>

queryVars == <<hayabusa_csv, chainsaw_csvs, timesketch_csv, present, response>>

jobVars == <<JOBS, launched, server_alive, os_proc, exit_code, signalled,
             reaper, cancel_pc, cancel_call, cancel_response>>

fnVars == <<fn_call, fn_value>>

startVars == <<run_response, job_key>>

outputVars == <<pipe, output_lines>>

statusVars == <<lock, status_call, status_response>>

serverVars == <<jobVars, startVars, outputVars, statusVars>>

progressVars == <<current_time, last_progress_print, previous_snapshot,
                  artifact_bytes, progress_out, last_printed>>

mainVars == <<runVars, progressVars>>

notMainVars == <<cacheVars, queryVars, serverVars, fnVars>>
notRunVars == <<notMainVars, progressVars>>
notCacheVars == <<mainVars, queryVars, serverVars, fnVars>>
notQueryVars == <<mainVars, cacheVars, serverVars, fnVars>>
notServerVars == <<mainVars, cacheVars, queryVars, fnVars>>
notRegistryVars == <<notServerVars, outputVars, statusVars>>
notJobVars == <<notRegistryVars, startVars>>
notFnVars == <<mainVars, cacheVars, queryVars, serverVars>>

vars == <<mainVars, cacheVars, queryVars, serverVars, fnVars>>

(***************************************************************************)
(* Helpers on sequences.                                                   *)
(***************************************************************************)
Range(s) == {s[i] : i \in DOMAIN s}
Min(a, b) == IF a < b THEN a ELSE b
Max(a, b) == IF a > b THEN a ELSE b

(***************************************************************************)
(* The artifact cache.                                                     *)
(* The filesystem holds a report file, a report directory and the          *)
(* directory's children.  Every write changes the file's size or its       *)
(* modification time (the property of the filesystem the cache relies on). *)
(* The content of a file (its rows, columns, preview) is its version 'ver'.*)
(***************************************************************************)
\* sorted(path.iterdir())[:20]
MaxDirChildren == 20

Dir == "out"
DirChildren == <<"out/a.csv", "out/b.csv">>
Files == {"report.csv"} \cup Range(DirChildren)
Paths == Files \cup {Dir}

IsDir(p) == p = Dir
ParentExists(p) == p \in Range(DirChildren) => fs[Dir].exists

Missing == [exists |-> FALSE, mtime |-> 0, size |-> 0, ver |-> 0]

CacheStart ==
    /\ fs = [p \in Paths |-> Missing]
    /\ now = 0
    /\ ARTIFACT_CACHE = <<>>
    /\ ncalls = 0
    /\ last_call = [path |-> "", summary |-> <<>>, computed |-> {}]
    /\ described = [p \in Paths |-> {}]

\* artifact_signature: (exists, is_dir, st_mtime_ns, st_size)
artifact_signature(p) ==
    IF fs[p].exists
    THEN <<TRUE, IsDir(p), {fs[p].mtime}, {fs[p].size}>>
    ELSE <<FALSE, FALSE, {}, {}>>

\* artifact_size_bytes of a directory: the sizes of the files below it
RECURSIVE SumSizes(_)
SumSizes(kids) ==
    IF kids = <<>> THEN 0
    ELSE (IF fs[Head(kids)].exists THEN fs[Head(kids)].size ELSE 0)
         + SumSizes(Tail(kids))

\* the summary of a path that does not exist
MissingSummary ==
    [exists |-> FALSE, type |-> "None", size_bytes |-> 0, details |-> {},
     contents |-> <<>>]

\* the summary of a .csv file: its size and what analyze_csv_artifact read
CsvSummary(p) ==
    [exists |-> TRUE, type |-> "csv", size_bytes |-> fs[p].size,
     details |-> {fs[p].ver}, contents |-> <<>>]

\* a directory's entry for one child, built from the child's summary
ChildEntry(p, child_summary) ==
    [name |-> p, type |-> child_summary.type,
     size_bytes |-> child_summary.size_bytes,
     rows |-> child_summary.details]

\* a hit test that looks at the path only
CacheHitOnPathOnly(cache, key, signature) == key \in DOMAIN cache

\* a hit test that never hits
CacheHitNever(cache, key, signature) == FALSE

\* 'cached and cached[0] == signature'
CacheHit(cache, key, signature) ==
    key \in DOMAIN cache /\ cache[key][1] = signature

\* a cache that stores nothing
CachePutNothing(cache, key, entry) == cache

\* ARTIFACT_CACHE[cache_key] = (signature, summary)
CachePut(cache, key, entry) ==
    [k \in DOMAIN cache \cup {key} |-> IF k = key THEN entry ELSE cache[k]]

\* describe_artifact and _describe_artifact_uncached.  The result carries the
\* cache after the call, the summary returned, the paths whose summary was
\* computed by _describe_artifact_uncached, and <<signature, summary>> of
\* every path describe_artifact was called for (the call itself and, for a
\* directory, the calls for its children).
RECURSIVE describe_artifact(_, _), DescribeChildren(_, _)
DescribeChildren(cache, kids) ==
    IF kids = <<>>
    THEN [cache |-> cache, entries |-> <<>>, computed |-> {}, calls |-> <<>>]
    ELSE LET first == describe_artifact(cache, Head(kids))
             rest == DescribeChildren(first.cache, Tail(kids))
         IN [cache |-> rest.cache,
             entries |-> <<ChildEntry(Head(kids), first.summary)>>
                         \o rest.entries,
             computed |-> first.computed \cup rest.computed,
             calls |-> first.calls \o rest.calls]

describe_artifact(cache, p) ==
    LET signature == artifact_signature(p) IN
    IF CacheHit(cache, p, signature)
    THEN [cache |-> cache, summary |-> cache[p][2], computed |-> {},
          calls |-> <<<<p, signature, cache[p][2]>>>>]
    ELSE IF ~fs[p].exists
    THEN [cache |-> CachePut(cache, p, <<signature, MissingSummary>>),
          summary |-> MissingSummary, computed |-> {p},
          calls |-> <<<<p, signature, MissingSummary>>>>]
    ELSE IF IsDir(p)
    THEN LET existing == SelectSeq(DirChildren, LAMBDA c : fs[c].exists)
             listed == SubSeq(existing, 1,
                              IF Len(existing) < MaxDirChildren
                              THEN Len(existing) ELSE MaxDirChildren)
             kids == DescribeChildren(cache, listed)
             summary == [exists |-> TRUE, type |-> "directory",
                         size_bytes |-> SumSizes(DirChildren),
                         details |-> {}, contents |-> kids.entries]
         IN [cache |-> CachePut(kids.cache, p, <<signature, summary>>),
             summary |-> summary, computed |-> kids.computed \cup {p},
             calls |-> kids.calls \o <<<<p, signature, summary>>>>]
    ELSE [cache |-> CachePut(cache, p, <<signature, CsvSummary(p)>>),
          summary |-> CsvSummary(p), computed |-> {p},
          calls |-> <<<<p, signature, CsvSummary(p)>>>>]

\* one top-level describe_artifact(p) call (get_artifact_summaries)
Describe(p) ==
    /\ UNCHANGED notCacheVars
    /\ ncalls < MaxCalls
    /\ LET r == describe_artifact(ARTIFACT_CACHE, p) IN
         /\ ARTIFACT_CACHE' = r.cache
         /\ last_call' = [path |-> p, summary |-> r.summary,
                          computed |-> r.computed]
         /\ described' = [q \in Paths |->
              IF \E i \in DOMAIN r.calls : r.calls[i][1] = q
              THEN LET i == CHOOSE i \in DOMAIN r.calls : r.calls[i][1] = q
                   IN {<<r.calls[i][2], r.calls[i][3]>>}
              ELSE described[q]]
    /\ ncalls' = ncalls + 1
    /\ UNCHANGED <<fs, now>>

\* a tool creates a file or the directory; a new child changes the
\* directory's modification time
FsCreate(p) ==
    /\ UNCHANGED notCacheVars
    /\ ~fs[p].exists
    /\ ParentExists(p)
    /\ now < MaxClock
    /\ now' = now + 1
    /\ fs' = [q \in Paths |->
                IF q = p
                THEN [exists |-> TRUE, mtime |-> now + 1, size |-> 0,
                      ver |-> 0]
                ELSE IF q = Dir /\ p \in Range(DirChildren)
                THEN [fs[q] EXCEPT !.mtime = now + 1]
                ELSE fs[q]]
    /\ UNCHANGED <<ARTIFACT_CACHE, ncalls, last_call, described>>

\* a tool writes to a file: the file grows, or its modification time moves,
\* or both; its content changes
FsWrite(p, grow, tick) ==
    /\ UNCHANGED notCacheVars
    /\ p \in Files
    /\ fs[p].exists
    /\ grow \/ tick
    /\ grow => fs[p].size < MaxSize
    /\ tick => now < MaxClock
    /\ now' = IF tick THEN now + 1 ELSE now
    /\ fs' = [fs EXCEPT ![p] =
                [exists |-> TRUE,
                 mtime |-> IF tick THEN now + 1 ELSE fs[p].mtime,
                 size |-> IF grow THEN fs[p].size + 1 ELSE fs[p].size,
                 ver |-> fs[p].ver + 1]]
    /\ UNCHANGED <<ARTIFACT_CACHE, ncalls, last_call, described>>

(***************************************************************************)
(* The synchronous run.                                                    *)
(***************************************************************************)
\* the tool_runs list of prepare_tools, in its order
ToolList == <<"hayabusa", "apt-hunter", "chainsaw">>
Tools == Range(ToolList)
ExitCodes == 0..MaxExitCode

\* the run before launch_tools: no process, no return code
RunStart ==
    /\ pc = "launch"
    /\ process = [t \in Tools |-> "none"]
    /\ exit_status = [t \in Tools |-> {}]
    /\ return_code = [t \in Tools |-> {}]
    /\ running = {}
    /\ finished_order = <<>>
    /\ idx = 1
    /\ printed = <<>>
    /\ exit_order = <<>>
    /\ failed = <<>>
    /\ remaining_failures = <<>>
    /\ retry_process = [t \in Tools |-> "none"]
    /\ retried = <<>>
    /\ returned = {}
    /\ current_time = ProgressInterval
    /\ last_progress_print = 0
    /\ previous_snapshot = [t \in Tools |-> {}]
    /\ artifact_bytes = [t \in Tools |-> 0]
    /\ progress_out = {}
    /\ last_printed = [t \in Tools |-> {}]

\* tool.process.poll(): None ({}) while the process runs, its exit status after
Poll(t) == IF process[t] = "exited" THEN exit_status[t] ELSE {}

\* launch_tools: one Popen per tool, in list order, none waited for
LaunchTool ==
    /\ UNCHANGED notRunVars
    /\ pc = "launch"
    /\ idx <= Len(ToolList)
    /\ process' = [process EXCEPT ![ToolList[idx]] = "running"]
    /\ idx' = idx + 1
    /\ UNCHANGED <<pc, enable_retry, exit_status, return_code, running,
                   finished_order, printed, exit_order, failed,
                   remaining_failures, retry_process, retried, returned>>

\* subprocess.Popen raises (the fork fails, or there is no shell to run the
\* command with): launch_tools and main have no try block, so the exception
\* ends the run; idx stays at the tool whose spawn failed.  A command whose
\* executable is missing is not this case: with shell=True the shell starts
\* and exits with 127, which is ProcessExit.
LaunchToolRaises ==
    /\ UNCHANGED notRunVars
    /\ pc = "launch"
    /\ idx <= Len(ToolList)
    /\ pc' = "raised"
    /\ UNCHANGED <<enable_retry, process, exit_status, return_code, running,
                   finished_order, idx, printed, exit_order, failed,
                   remaining_failures, retry_process, retried, returned>>

\* launch_tools returns; monitor_tools initialises its locals
MonitorEnter ==
    /\ UNCHANGED notRunVars
    /\ pc = "launch"
    /\ idx > Len(ToolList)
    /\ running' = Tools
    /\ finished_order' = <<>>
    /\ pc' = "monitor_while"
    /\ UNCHANGED <<enable_retry, process, exit_status, return_code, idx,
                   printed, exit_order, failed, remaining_failures,
                   retry_process, retried, returned>>

\* a first-pass tool process exits on its own, at any time, with any code
ProcessExit(t, code) ==
    /\ UNCHANGED notRunVars
    /\ process[t] = "running"
    /\ process' = [process EXCEPT ![t] = "exited"]
    /\ exit_status' = [exit_status EXCEPT ![t] = {code}]
    /\ exit_order' = Append(exit_order, t)
    /\ UNCHANGED <<pc, enable_retry, return_code, running, finished_order,
                   idx, printed, failed, remaining_failures, retry_process,
                   retried, returned>>

\* a loop condition that holds only while every process still runs
MonitorAllRunning == \A t \in Tools : process[t] # "none" /\ Poll(t) = {}

\* the condition of monitor_tools' while loop
MonitorAnyRunning == \E t \in Tools : process[t] # "none" /\ Poll(t) = {}

MonitorWhile ==
    /\ UNCHANGED notRunVars
    /\ pc = "monitor_while"
    /\ pc' = IF MonitorAnyRunning THEN "monitor_for" ELSE "monitor_final"
    /\ idx' = 1
    /\ UNCHANGED <<enable_retry, process, exit_status, return_code, running,
                   finished_order, printed, exit_order, failed,
                   remaining_failures, retry_process, retried, returned>>

\* a test that reports every exited tool, reported before or not
SeenFinishedAgain(t) == process[t] # "none" /\ Poll(t) # {}

\* 'if tool.process and tool.process.poll() is not None and tool.name in
\* running'
SeenFinished(t) == process[t] # "none" /\ Poll(t) # {} /\ t \in running

\* one iteration of 'for tool in tools' in the loop body
MonitorFor ==
    /\ UNCHANGED notRunVars
    /\ pc = "monitor_for"
    /\ idx <= Len(ToolList)
    /\ LET t == ToolList[idx] IN
         IF SeenFinished(t)
         THEN /\ running' = running \ {t}
              /\ finished_order' = Append(finished_order, t)
              /\ return_code' = [return_code EXCEPT ![t] = Poll(t)]
              /\ printed' = Append(printed, Append(finished_order, t))
         ELSE UNCHANGED <<running, finished_order, return_code, printed>>
    /\ idx' = idx + 1
    /\ UNCHANGED <<pc, enable_retry, process, exit_status, exit_order, failed,
                   remaining_failures, retry_process, retried, returned>>

\* the end of the loop body: time.sleep(0.5), then back to the condition
\* (the progress block before it, which prints and keeps its own locals, is
\* MonitorProgress)
MonitorSleep ==
    /\ UNCHANGED notRunVars
    /\ pc = "monitor_for"
    /\ idx > Len(ToolList)
    /\ pc' = "monitor_while"
    /\ UNCHANGED <<enable_retry, process, exit_status, return_code, running,
                   finished_order, idx, printed, exit_order, failed,
                   remaining_failures, retry_process, retried, returned>>

\* the sizes the reports of a tool pass through while it writes them
ArtifactSizes == <<0, 512, 1024, 1040>>

\* the writes made so far
RECURSIVE WritesMade(_)
WritesMade(toolset) ==
    IF toolset = {} THEN 0
    ELSE LET t == CHOOSE t \in toolset : TRUE
             i == CHOOSE i \in DOMAIN ArtifactSizes :
                      ArtifactSizes[i] = artifact_bytes[t]
         IN (i - 1) + WritesMade(toolset \ {t})

\* a running tool writes to its reports
ArtifactGrows(t) ==
    /\ UNCHANGED <<notMainVars, runVars>>
    /\ process[t] = "running"
    /\ WritesMade(Tools) < MaxWrites
    /\ \E i \in 1..(Len(ArtifactSizes) - 1) :
         /\ artifact_bytes[t] = ArtifactSizes[i]
         /\ artifact_bytes' = [artifact_bytes EXCEPT
                                 ![t] = ArtifactSizes[i + 1]]
    /\ UNCHANGED <<current_time, last_progress_print, previous_snapshot,
                   progress_out, last_printed>>

\* human_size below 1 MB: "<n> B", or KB with one decimal (in tenths)
human_size(num_bytes) ==
    IF num_bytes < 1024
    THEN <<num_bytes, "B">>
    ELSE <<(num_bytes * 10 + 512) \div 1024, "KB">>

\* progress_state: (status, size), size None ({}) without bytes on disk
progress_state(t, running_flag) ==
    <<IF running_flag THEN "running" ELSE "finished",
      IF artifact_bytes[t] # 0 THEN {human_size(artifact_bytes[t])} ELSE {}>>

\* a monitor that never remembers what it sampled
NextSnapshotForgotten(previous, snapshot, delta_messages) == previous

\* 'if delta_messages: ...; previous_snapshot = snapshot'
NextSnapshot(previous, snapshot, delta_messages) ==
    IF delta_messages # {} THEN snapshot ELSE previous

\* the end of the loop body: the progress block, in which current_time is
\* the time the iteration read, dt after the one before; then
\* time.sleep(0.5) and back to the condition
MonitorProgress(dt) ==
    /\ UNCHANGED notMainVars
    /\ pc = "monitor_for"
    /\ idx > Len(ToolList)
    /\ current_time + dt <= MaxTime
    /\ current_time' = current_time + dt
    /\ IF current_time' - last_progress_print >= ProgressInterval
       THEN LET snapshot == [t \in Tools |->
                               {progress_state(t, t \in running)}]
                delta_messages ==
                    {t \in Tools : previous_snapshot[t] # snapshot[t]}
            IN /\ previous_snapshot' =
                      NextSnapshot(previous_snapshot, snapshot, delta_messages)
               /\ progress_out' = delta_messages
               /\ last_printed' = [t \in Tools |->
                                     IF t \in delta_messages
                                     THEN snapshot[t] ELSE last_printed[t]]
               /\ last_progress_print' = current_time'
       ELSE UNCHANGED <<previous_snapshot, progress_out, last_printed,
                        last_progress_print>>
    /\ pc' = "monitor_while"
    /\ UNCHANGED <<enable_retry, process, exit_status, return_code, running,
                   finished_order, idx, printed, exit_order, failed,
                   remaining_failures, retry_process, retried, returned,
                   artifact_bytes>>

\* a final pass that collects nothing
FinalReturnCodeKept(t) == return_code[t]

\* 'if tool.process: tool.return_code = tool.process.poll()'
FinalReturnCode(t) == IF process[t] # "none" THEN Poll(t) ELSE return_code[t]

\* after the loop: every tool's exit code is collected; monitor_tools returns
MonitorFinal ==
    /\ UNCHANGED notRunVars
    /\ pc = "monitor_final"
    /\ return_code' = [t \in Tools |-> FinalReturnCode(t)]
    /\ pc' = "rerun"
    /\ UNCHANGED <<enable_retry, process, exit_status, running, finished_order,
                   idx, printed, exit_order, failed, remaining_failures,
                   retry_process, retried, returned>>

\* a test that takes every collected exit code, 0 included, for a failure
IsFailedOrZero(t) == return_code[t] # {}

\* tool.return_code not in (0, None)
IsFailed(t) == return_code[t] # {0} /\ return_code[t] # {}

\* an early return that does not look at enable_retry
RerunReturnsEarlyIgnoringFlag(f) == f = <<>>

\* 'if not failed or not enable_retry: return failed'
RerunReturnsEarly(f) == f = <<>> \/ ~enable_retry

RerunEnter ==
    /\ UNCHANGED notRunVars
    /\ pc = "rerun"
    /\ LET f == SelectSeq(ToolList, IsFailed) IN
         /\ failed' = f
         /\ IF RerunReturnsEarly(f)
            THEN /\ returned' = {f}
                 /\ pc' = "done"
                 /\ UNCHANGED <<remaining_failures, idx>>
            ELSE /\ remaining_failures' = <<>>
                 /\ idx' = 1
                 /\ pc' = "retry_for"
                 /\ UNCHANGED returned
    /\ UNCHANGED <<enable_retry, process, exit_status, return_code, running,
                   finished_order, printed, exit_order, retry_process,
                   retried>>

\* a loop that stays at the tool it has just retried
RetryNextSame(i) == i

\* the next tool of 'for tool in failed', or the return after the last one
RetryNext(i) == i + 1

\* 'Retrying <name>...', the log file is unlinked, subprocess.run starts the
\* command
RetryStart ==
    /\ UNCHANGED notRunVars
    /\ pc = "retry_for"
    /\ idx <= Len(failed)
    /\ retried' = Append(retried, failed[idx])
    /\ retry_process' = [retry_process EXCEPT ![failed[idx]] = "running"]
    /\ pc' = "retry_run"
    /\ UNCHANGED <<enable_retry, process, exit_status, return_code, running,
                   finished_order, idx, printed, exit_order, failed,
                   remaining_failures, returned>>

\* a retry counted as a failure whatever it returned
StillFailedAlways(code) == TRUE

\* 'if tool.return_code != 0' after the retry
StillFailed(code) == code # 0

\* subprocess.run returns when the retried command has exited
RetryExit(code) ==
    /\ UNCHANGED notRunVars
    /\ pc = "retry_run"
    /\ retry_process' = [retry_process EXCEPT ![failed[idx]] = "exited"]
    /\ return_code' = [return_code EXCEPT ![failed[idx]] = {code}]
    /\ remaining_failures' = IF StillFailed(code)
                             THEN Append(remaining_failures, failed[idx])
                             ELSE remaining_failures
    /\ idx' = RetryNext(idx)
    /\ pc' = "retry_for"
    /\ UNCHANGED <<enable_retry, process, exit_status, running,
                   finished_order, printed, exit_order, failed, retried,
                   returned>>

\* 'return remaining_failures'
RetryReturn ==
    /\ UNCHANGED notRunVars
    /\ pc = "retry_for"
    /\ idx > Len(failed)
    /\ returned' = {remaining_failures}
    /\ pc' = "done"
    /\ UNCHANGED <<enable_retry, process, exit_status, return_code, running,
                   finished_order, idx, printed, exit_order, failed,
                   remaining_failures, retry_process, retried>>

(***************************************************************************)
(* The query layer of mcp/server.py.                                       *)
(* A string the code compares, slices or searches is a sequence of         *)
(* character codes (ASCII); a severity level, which the code only lowers   *)
(* and looks up, is a string.  An Optional argument is a set: {} is None.  *)
(***************************************************************************)
\* str.lower() of one character
LowerCh(c) == IF c >= 65 /\ c <= 90 THEN c + 32 ELSE c
LowerStr(str) == [i \in DOMAIN str |-> LowerCh(str[i])]

\* 'needle in hay'
IsSubstring(needle, hay) ==
    \E i \in 0..(Len(hay) - Len(needle)) :
        SubSeq(hay, i + 1, i + Len(needle)) = needle

\* a < b for strings: by code point, a proper prefix is smaller
RECURSIVE StrLess(_, _)
StrLess(a, b) ==
    IF b = <<>> THEN FALSE
    ELSE IF a = <<>> THEN TRUE
    ELSE IF Head(a) # Head(b) THEN Head(a) < Head(b)
    ELSE StrLess(Tail(a), Tail(b))

\* a slice that keeps the whole string
SliceWhole(str, n) == str

\* str[:n]
Slice(str, n) == SubSeq(str, 1, Min(n, Len(str)))

\* 'a or b': the first value that is not empty
OrElse(a, b) == IF a # <<>> THEN a ELSE b

\* level.lower() for the levels the tools write
LowerLevel(level) ==
    CASE level = "High" -> "high"
      [] level = "Medium" -> "medium"
      [] OTHER -> level

SEVERITY_ORDER ==
    [critical |-> 0, high |-> 1, medium |-> 2, low |-> 3, informational |-> 4]

\* SEVERITY_ORDER.get(level.lower(), 99)
UnknownRank == 99
SeverityRank(level) ==
    IF LowerLevel(level) \in DOMAIN SEVERITY_ORDER
    THEN SEVERITY_ORDER[LowerLevel(level)]
    ELSE UnknownRank

\* the width of the timestamp prefix _time_in_range compares
TimePrefix == 19

\* _time_in_range(dt_str, start, end); 'not start' holds for None and ''
IsSet(opt) == opt # {} /\ opt # {<<>>}
_time_in_range(dt_str, start, end) ==
    IF ~IsSet(start) /\ ~IsSet(end) THEN TRUE
    ELSE LET str == Slice(dt_str, TimePrefix) IN
         /\ \A b \in start : b # <<>> => ~StrLess(str, Slice(b, TimePrefix))
         /\ \A b \in end : b # <<>> => ~StrLess(Slice(b, TimePrefix), str)

\* _severity_gte(level, min_level)
_severity_gte(level, min_level) ==
    \A m \in min_level : SeverityRank(level) >= SeverityRank(m)

\* _match_row(row, filters) for the Computer filter
_match_row(row, computer) ==
    \A val \in computer : IsSubstring(LowerStr(val), LowerStr(row.Computer))

\* _truncate(rows, limit)
_truncate(rows, limit) ==
    [total_matched |-> Len(rows),
     returned |-> Min(Len(rows), limit),
     truncated |-> Len(rows) > limit,
     rows |-> IF limit >= 0 THEN SubSeq(rows, 1, Min(limit, Len(rows)))
              ELSE SubSeq(rows, 1, Max(0, Len(rows) + limit))]

\* lines[i:] as Python slices: a negative i counts from the end, and an i
\* out of range is clipped
PySliceFrom(lines, i) ==
    LET start == IF i < 0 THEN Max(Len(lines) + i, 0) ELSE Min(i, Len(lines))
    IN SubSeq(lines, start + 1, Len(lines))

\* 'shown = lines[-tail:] if tail < len(lines) else lines'
Shown(lines, tail) ==
    IF tail < Len(lines) THEN PySliceFrom(lines, 0 - tail) ELSE lines

\* the lines of a log: "line 1", "line 2", ...
LogLines(n) == [i \in 1..n |-> i]

\* a clamp that has no floor of 1
ClampLimitNoFloor(limit, hard_max) == Min(limit, hard_max)

\* 'limit = min(max(1, limit), hard_max)'
ClampLimit(limit, hard_max) == Min(Max(1, limit), hard_max)
QueryLimitMax == 1000
TimelineLimitMax == 2000

\* ---- the files of a case ----
Date == <<50, 48, 50, 52, 45, 48, 49, 45, 49, 53, 84>>   \* "2024-01-15T"
\* "2024-01-15T<hh>:00:00"
Stamp(hh) == Date \o <<48 + (hh \div 10), 48 + (hh % 10)>>
                  \o <<58, 48, 48, 58, 48, 48>>
T09 == Stamp(9)
T10 == Stamp(10)
T11 == Stamp(11)
T10Half == T10 \o <<46, 53>>                               \* "...T10:00:00.5"
DC1 == <<68, 67, 49>>                                      \* "DC1"
Ws2 == <<119, 115, 50>>                                    \* "ws2"

\* rows Hayabusa writes (Datetime, Level, Computer; other columns left out)
HayabusaRows ==
    {[Datetime |-> T10, Level |-> "high", Computer |-> DC1],
     [Datetime |-> T09, Level |-> "low", Computer |-> Ws2],
     [Datetime |-> T11, Level |-> "critical", Computer |-> DC1],
     [Datetime |-> T10Half, Level |-> "Medium", Computer |-> Ws2],
     [Datetime |-> T09, Level |-> "n/a", Computer |-> DC1]}

\* rows Chainsaw writes: the timestamp is in system_time or in timestamp
ChainsawGroups == <<"account_tampering", "lateral_movement">>
ChainsawRows ==
    {[system_time |-> T10, timestamp |-> <<>>, level |-> "high"],
     [system_time |-> <<>>, timestamp |-> T09, level |-> "low"]}

\* rows of APT-Hunter's TimeSketch CSV
TimeSketchRows ==
    {[datetime |-> T10, label |-> ""],
     [datetime |-> T11, label |-> "low"]}

NoResponse == [op |-> "none"]

caseFiles == <<hayabusa_csv, chainsaw_csvs, timesketch_csv, present>>

\* a case directory the orchestrator has not run on yet
NothingPresent ==
    [output_dir |-> FALSE, hayabusa |-> FALSE, chainsaw |-> FALSE,
     timesketch |-> FALSE, hayabusa_log |-> FALSE]
\* a case every tool has started its report of
AllPresent ==
    [output_dir |-> TRUE, hayabusa |-> TRUE, chainsaw |-> TRUE,
     timesketch |-> TRUE, hayabusa_log |-> TRUE]

NoRows ==
    /\ hayabusa_csv = <<>>
    /\ chainsaw_csvs = [g \in Range(ChainsawGroups) |-> <<>>]
    /\ timesketch_csv = <<>>
    /\ response = NoResponse

QueryStart == NoRows /\ present = AllPresent

\* what an operation leaves when _output_dir raises: none of the
\* operations catches it
FileNotFound == [raised |-> "FileNotFoundError"]

\* the orchestrator creates eventlog_operations_output and its log directory
CreateOutputDir ==
    /\ UNCHANGED notQueryVars
    /\ ~present.output_dir
    /\ present' = [present EXCEPT !.output_dir = TRUE]
    /\ response' = NoResponse
    /\ UNCHANGED <<hayabusa_csv, chainsaw_csvs, timesketch_csv>>

\* Hayabusa's log file is created
HayabusaLogs ==
    /\ UNCHANGED notQueryVars
    /\ present.output_dir
    /\ ~present.hayabusa_log
    /\ present' = [present EXCEPT !.hayabusa_log = TRUE]
    /\ response' = NoResponse
    /\ UNCHANGED <<hayabusa_csv, chainsaw_csvs, timesketch_csv>>

RECURSIVE SumLen(_, _)
SumLen(f, keys) ==
    IF keys = <<>> THEN 0 ELSE Len(f[Head(keys)]) + SumLen(f, Tail(keys))
TotalRows ==
    Len(hayabusa_csv) + SumLen(chainsaw_csvs, ChainsawGroups)
    + Len(timesketch_csv)

\* a tool appends a row to its report
HayabusaWrites(row) ==
    /\ UNCHANGED notQueryVars
    /\ TotalRows < MaxRows
    /\ present.output_dir
    /\ hayabusa_csv' = Append(hayabusa_csv, row)
    /\ present' = [present EXCEPT !.hayabusa = TRUE]
    /\ response' = NoResponse
    /\ UNCHANGED <<chainsaw_csvs, timesketch_csv>>

ChainsawWrites(g, row) ==
    /\ UNCHANGED notQueryVars
    /\ TotalRows < MaxRows
    /\ present.output_dir
    /\ chainsaw_csvs' = [chainsaw_csvs EXCEPT ![g] = Append(@, row)]
    /\ present' = [present EXCEPT !.chainsaw = TRUE]
    /\ response' = NoResponse
    /\ UNCHANGED <<hayabusa_csv, timesketch_csv>>

AptHunterWrites(row) ==
    /\ UNCHANGED notQueryVars
    /\ TotalRows < MaxRows
    /\ present.output_dir
    /\ timesketch_csv' = Append(timesketch_csv, row)
    /\ present' = [present EXCEPT !.timesketch = TRUE]
    /\ response' = NoResponse
    /\ UNCHANGED <<hayabusa_csv, chainsaw_csvs>>

\* ---- query_hayabusa ----
HayabusaMatches(row, min_severity, computer, start_time, end_time) ==
    /\ _match_row(row, computer)
    /\ _time_in_range(row.Datetime, start_time, end_time)
    /\ _severity_gte(row.Level, min_severity)

query_hayabusa(min_severity, computer, start_time, end_time, limit) ==
    IF ~present.output_dir THEN FileNotFound
    ELSE IF ~present.hayabusa
    THEN [error |-> "Hayabusa output CSV not found for this case."]
    ELSE _truncate(
             SelectSeq(hayabusa_csv,
                       LAMBDA row : HayabusaMatches(row, min_severity,
                                                    computer, start_time,
                                                    end_time)),
             ClampLimit(limit, QueryLimitMax))

\* A query does not change the files, so the queries a caller makes between
\* two writes are independent: each is taken from the state the last write
\* left.
QueryHayabusa(min_severity, computer, start_time, end_time, limit) ==
    /\ UNCHANGED notQueryVars
    /\ response = NoResponse
    /\ response' =
         [op |-> "query_hayabusa", min_severity |-> min_severity,
          computer |-> computer, start_time |-> start_time,
          end_time |-> end_time, limit |-> limit,
          result |-> query_hayabusa(min_severity, computer, start_time,
                                    end_time, limit)]
    /\ UNCHANGED caseFiles

\* ---- query_chainsaw ----
\* 'system_time or timestamp or ""'
ChainsawTimestamp(row) == OrElse(row.system_time, row.timestamp)

\* 'group.lower() in f.stem.lower()' for the groups a caller asks for
StemContains(group, stem) ==
    CASE group = "Lateral" -> stem = "lateral_movement"
      [] group = "" -> TRUE
      [] OTHER -> group = stem

\* 'csv_files = list(cs_dir.rglob("*.csv"))', narrowed to the group if one
\* is given ('if group:' is false for None and '')
ChainsawFiles(group) ==
    SelectSeq(ChainsawGroups,
              LAMBDA g : \A wanted \in group : StemContains(wanted, g))

\* the rows of one group file that pass the time filter, with their _group
ChainsawFileMatches(g, start_time, end_time) ==
    LET kept == SelectSeq(chainsaw_csvs[g], LAMBDA row :
                    _time_in_range(ChainsawTimestamp(row), start_time,
                                   end_time))
    IN [i \in DOMAIN kept |->
          [system_time |-> kept[i].system_time,
           timestamp |-> kept[i].timestamp, level |-> kept[i].level,
           _group |-> g]]

\* 'for csv_file in sorted(csv_files)'
RECURSIVE ChainsawMatches(_, _, _)
ChainsawMatches(files, start_time, end_time) ==
    IF files = <<>> THEN <<>>
    ELSE ChainsawFileMatches(Head(files), start_time, end_time)
         \o ChainsawMatches(Tail(files), start_time, end_time)

query_chainsaw(group, start_time, end_time, limit) ==
    IF ~present.output_dir THEN FileNotFound
    ELSE IF ~present.chainsaw
    THEN [error |-> "Chainsaw output directory not found for this case."]
    ELSE IF ChainsawFiles(group) = <<>>
    THEN [error |-> "No Chainsaw CSV files found"]
    ELSE _truncate(ChainsawMatches(ChainsawFiles(group), start_time, end_time),
                   ClampLimit(limit, QueryLimitMax))

QueryChainsaw(group, start_time, end_time, limit) ==
    /\ UNCHANGED notQueryVars
    /\ response = NoResponse
    /\ response' =
         [op |-> "query_chainsaw", group |-> group,
          start_time |-> start_time, end_time |-> end_time, limit |-> limit,
          result |-> query_chainsaw(group, start_time, end_time, limit)]
    /\ UNCHANGED caseFiles

\* ---- query_apthunter, the CSV sources ----
\* _apthunter_csvs: the CSV outputs the case holds
ApthunterCsvs == IF present.timesketch THEN {"TimeSketch"} ELSE {}

\* the 'else' branch of query_apthunter: every row of the source's CSV is
\* kept (no keyword given); start_time and end_time are not read
query_apthunter(source, start_time, end_time, limit) ==
    IF ~present.output_dir THEN FileNotFound
    ELSE IF source \notin ApthunterCsvs
    THEN [error |-> "APT-Hunter CSV not found."]
    ELSE _truncate(timesketch_csv, ClampLimit(limit, QueryLimitMax))

QueryApthunter(source, start_time, end_time, limit) ==
    /\ UNCHANGED notQueryVars
    /\ response = NoResponse
    /\ response' =
         [op |-> "query_apthunter", source |-> source,
          start_time |-> start_time, end_time |-> end_time, limit |-> limit,
          result |-> query_apthunter(source, start_time, end_time, limit)]
    /\ UNCHANGED caseFiles

\* ---- get_merged_timeline ----
\* 'set(t.strip().lower() for t in tools.split(","))', or all three for 'all'
IncludedTools(tools) ==
    CASE tools = "all" -> {"hayabusa", "chainsaw", "apthunter"}
      [] tools = "hayabusa, Chainsaw" -> {"hayabusa", "chainsaw"}
      [] tools = "apthunter" -> {"apthunter"}
      [] OTHER -> {tools}

HayabusaEvents(start_time, end_time, min_severity) ==
    LET kept == SelectSeq(hayabusa_csv, LAMBDA row :
                    /\ _time_in_range(row.Datetime, start_time, end_time)
                    /\ _severity_gte(row.Level, min_severity))
    IN [i \in DOMAIN kept |->
          [timestamp |-> kept[i].Datetime, tool |-> "hayabusa",
           level |-> kept[i].Level, group |-> ""]]

ChainsawFileEvents(g, start_time, end_time, min_severity) ==
    LET kept == SelectSeq(chainsaw_csvs[g], LAMBDA row :
                    /\ _time_in_range(ChainsawTimestamp(row), start_time,
                                      end_time)
                    /\ ~(min_severity # {} /\ min_severity # {""}
                         /\ ~_severity_gte(row.level, min_severity)))
    IN [i \in DOMAIN kept |->
          [timestamp |-> ChainsawTimestamp(kept[i]), tool |-> "chainsaw",
           level |-> kept[i].level, group |-> g]]

\* 'for csv_file in sorted(cs_dir.rglob("*.csv"))'
RECURSIVE ChainsawEvents(_, _, _, _)
ChainsawEvents(groups, start_time, end_time, min_severity) ==
    IF groups = <<>> THEN <<>>
    ELSE ChainsawFileEvents(Head(groups), start_time, end_time, min_severity)
         \o ChainsawEvents(Tail(groups), start_time, end_time, min_severity)

\* the TimeSketch rows: the time range is applied, the level is the label
\* or 'medium'
AptHunterEvents(start_time, end_time) ==
    LET kept == SelectSeq(timesketch_csv, LAMBDA row :
                    _time_in_range(row.datetime, start_time, end_time))
    IN [i \in DOMAIN kept |->
          [timestamp |-> kept[i].datetime, tool |-> "apthunter",
           level |-> IF kept[i].label # "" THEN kept[i].label ELSE "medium",
           group |-> ""]]

\* a comparison that also puts an event before the events of its timestamp
SortsBeforeOrTies(e, other) == ~StrLess(other.timestamp, e.timestamp)

\* the comparison of the sort: by the key e.get("timestamp", "") alone
SortsBefore(e, other) == StrLess(e.timestamp, other.timestamp)

\* events.sort(key=timestamp): a stable sort, equal keys keep their order
RECURSIVE InsertByTimestamp(_, _)
InsertByTimestamp(sorted, e) ==
    IF sorted = <<>> THEN <<e>>
    ELSE IF SortsBefore(e, sorted[Len(sorted)])
    THEN Append(InsertByTimestamp(SubSeq(sorted, 1, Len(sorted) - 1), e),
                sorted[Len(sorted)])
    ELSE Append(sorted, e)

RECURSIVE SortByTimestamp(_)
SortByTimestamp(events) ==
    IF events = <<>> THEN <<>>
    ELSE InsertByTimestamp(
             SortByTimestamp(SubSeq(events, 1, Len(events) - 1)),
             events[Len(events)])

\* a timeline that leaves the events as they were collected
SortEventsNot(events) == events

\* 'events.sort(key=lambda e: e.get("timestamp", ""))'
SortEvents(events) == SortByTimestamp(events)

\* the events list before the sort: hayabusa, then chainsaw, then apthunter
CollectEvents(start_time, end_time, min_severity, tools) ==
    LET include == IncludedTools(tools) IN
        (IF "hayabusa" \in include /\ present.hayabusa
         THEN HayabusaEvents(start_time, end_time, min_severity)
         ELSE <<>>)
        \o (IF "chainsaw" \in include /\ present.chainsaw
            THEN ChainsawEvents(ChainsawGroups, start_time, end_time,
                                min_severity)
            ELSE <<>>)
        \o (IF "apthunter" \in include /\ "TimeSketch" \in ApthunterCsvs
            THEN AptHunterEvents(start_time, end_time)
            ELSE <<>>)

\* the names a tools argument is compared with
KnownTools == {"hayabusa", "chainsaw", "apthunter"}

\* _hayabusa_csv, _chainsaw_dir and _apthunter_csvs are called for the
\* included tools only, and each calls _output_dir
CallsOutputDir(tools) == IncludedTools(tools) \cap KnownTools # {}

get_merged_timeline(start_time, end_time, min_severity, tools, limit) ==
    IF CallsOutputDir(tools) /\ ~present.output_dir THEN FileNotFound
    ELSE _truncate(SortEvents(CollectEvents(start_time, end_time,
                                            min_severity, tools)),
                   ClampLimit(limit, TimelineLimitMax))

GetMergedTimeline(start_time, end_time, min_severity, tools, limit) ==
    /\ UNCHANGED notQueryVars
    /\ response = NoResponse
    /\ response' =
         [op |-> "get_merged_timeline", min_severity |-> min_severity,
          start_time |-> start_time, end_time |-> end_time,
          tools |-> tools, limit |-> limit,
          result |-> get_merged_timeline(start_time, end_time, min_severity,
                                         tools, limit)]
    /\ UNCHANGED caseFiles

\* ---- search_all ----
SearchLimitMax == 500

\* str(v) of a level or label the tools write
LevelText(level) ==
    CASE level = "high" -> <<104, 105, 103, 104>>
      [] level = "low" -> <<108, 111, 119>>
      [] level = "critical" -> <<99, 114, 105, 116, 105, 99, 97, 108>>
      [] level = "Medium" -> <<77, 101, 100, 105, 117, 109>>
      [] level = "n/a" -> <<110, 47, 97>>
      [] OTHER -> <<>>

\* '" ".join(str(v) for v in row.values())' of a row of each report
HayabusaText(row) ==
    row.Datetime \o <<32>> \o LevelText(row.Level) \o <<32>> \o row.Computer
ChainsawText(row) ==
    row.system_time \o <<32>> \o row.timestamp \o <<32>>
    \o LevelText(row.level)
TimeSketchText(row) == row.datetime \o <<32>> \o LevelText(row.label)

\* 'kw in " ".join(...).lower()' with kw = keyword.lower()
KeywordIn(keyword, text) == IsSubstring(LowerStr(keyword), LowerStr(text))

\* the loop over a report's rows that stops with 'if len(hits) >= limit:
\* break': the first limit rows that hold the keyword
FirstHits(matches, limit) == SubSeq(matches, 1, Min(limit, Len(matches)))

HayabusaKeywordRows(keyword) ==
    SelectSeq(hayabusa_csv, LAMBDA row : KeywordIn(keyword, HayabusaText(row)))

ChainsawFileKeywordRows(g, keyword) ==
    LET kept == SelectSeq(chainsaw_csvs[g], LAMBDA row :
                    KeywordIn(keyword, ChainsawText(row)))
    IN [i \in DOMAIN kept |->
          [system_time |-> kept[i].system_time,
           timestamp |-> kept[i].timestamp, level |-> kept[i].level,
           _group |-> g]]

RECURSIVE ChainsawKeywordRows(_, _)
ChainsawKeywordRows(files, keyword) ==
    IF files = <<>> THEN <<>>
    ELSE ChainsawFileKeywordRows(Head(files), keyword)
         \o ChainsawKeywordRows(Tail(files), keyword)

TimeSketchKeywordRows(keyword) ==
    LET kept == SelectSeq(timesketch_csv, LAMBDA row :
                    KeywordIn(keyword, TimeSketchText(row)))
    IN [i \in DOMAIN kept |->
          [datetime |-> kept[i].datetime, label |-> kept[i].label,
           _source |-> "TimeSketch"]]

\* every row of a tool's reports that holds the keyword, in scan order
KeywordRows(tool, keyword) ==
    CASE tool = "hayabusa" -> HayabusaKeywordRows(keyword)
      [] tool = "chainsaw" ->
           IF present.chainsaw
           THEN ChainsawKeywordRows(ChainsawGroups, keyword) ELSE <<>>
      [] tool = "apthunter" ->
           IF "TimeSketch" \in ApthunterCsvs
           THEN TimeSketchKeywordRows(keyword) ELSE <<>>

\* the keys of 'hits': hits["hayabusa"] is set only if the CSV is found,
\* the two others whenever the tool is included
HitKeys(tools) ==
    {t \in IncludedTools(tools) \cap KnownTools :
        t = "hayabusa" => present.hayabusa}

search_all(keyword, tools, limit) ==
    IF CallsOutputDir(tools) /\ ~present.output_dir THEN FileNotFound
    ELSE LET hits == [t \in HitKeys(tools) |->
                        FirstHits(KeywordRows(t, keyword),
                                  ClampLimit(limit, SearchLimitMax))]
         IN [keyword |-> keyword,
             totals |-> [t \in HitKeys(tools) |-> Len(hits[t])],
             results |-> hits]

SearchAll(keyword, tools, limit) ==
    /\ UNCHANGED notQueryVars
    /\ response = NoResponse
    /\ response' =
         [op |-> "search_all", keyword |-> keyword, tools |-> tools,
          limit |-> limit, result |-> search_all(keyword, tools, limit)]
    /\ UNCHANGED caseFiles

\* ---- get_unique_values ----
RECURSIVE AllChainsawRows(_)
AllChainsawRows(files) ==
    IF files = <<>> THEN <<>>
    ELSE chainsaw_csvs[Head(files)] \o AllChainsawRows(Tail(files))

\* counts[val] for the values 'str(row.get(column, "")).strip()' that are
\* not empty, then 'filtered': the values seen min_count times or more
UniqueValuesOf(tool, rows, column, min_count) ==
    LET with == SelectSeq(rows, LAMBDA row :
                    column \in DOMAIN row /\ row[column] # <<>>)
        count(v) == Cardinality({i \in DOMAIN with : with[i][column] = v})
        values == [v \in {with[i][column] : i \in DOMAIN with} |-> count(v)]
        filtered == [v \in {w \in DOMAIN values : values[w] >= min_count}
                       |-> values[v]]
    IN [tool |-> tool, column |-> column,
        distinct_values |-> Cardinality(DOMAIN filtered),
        values |-> filtered]

get_unique_values(tool, column, min_count) ==
    CASE tool = "hayabusa" ->
           IF ~present.output_dir THEN FileNotFound
           ELSE IF ~present.hayabusa
           THEN [error |-> "Hayabusa CSV not found."]
           ELSE UniqueValuesOf(tool, hayabusa_csv, column, min_count)
      [] tool = "chainsaw" ->
           IF ~present.output_dir THEN FileNotFound
           ELSE IF ~present.chainsaw
           THEN [error |-> "Chainsaw output directory not found."]
           ELSE UniqueValuesOf(tool, AllChainsawRows(ChainsawGroups), column,
                               min_count)
      [] tool = "apthunter_timesketch" ->
           IF ~present.output_dir THEN FileNotFound
           ELSE IF "TimeSketch" \notin ApthunterCsvs
           THEN [error |-> "APT-Hunter TimeSketch CSV not found."]
           ELSE UniqueValuesOf(tool, timesketch_csv, column, min_count)
      [] OTHER ->
           [error |-> "Unknown tool. Choose: hayabusa, chainsaw, apthunter_timesketch."]

GetUniqueValues(tool, column, min_count) ==
    /\ UNCHANGED notQueryVars
    /\ response = NoResponse
    /\ response' =
         [op |-> "get_unique_values", tool |-> tool, column |-> column,
          min_count |-> min_count,
          result |-> get_unique_values(tool, column, min_count)]
    /\ UNCHANGED caseFiles

\* ---- get_tool_log ----
\* _log_path: the log of the tool, if the log directory holds one
LogFound(tool) == tool = "hayabusa" /\ present.hayabusa_log

get_tool_log(tool, tail) ==
    IF ~present.output_dir THEN FileNotFound
    ELSE IF ~LogFound(tool)
    THEN [error |-> "Log file not found.",
          hint |-> "Valid tool names: hayabusa, apt_hunter, chainsaw"]
    ELSE LET lines == LogLines(MaxLines)
             shown == Shown(lines, tail)
         IN [tool |-> tool, total_lines |-> Len(lines),
             showing_last |-> Len(shown), content |-> shown]

GetToolLog(tool, tail) ==
    /\ UNCHANGED notQueryVars
    /\ response = NoResponse
    /\ response' =
         [op |-> "get_tool_log", tool |-> tool, tail |-> tail,
          result |-> get_tool_log(tool, tail)]
    /\ UNCHANGED caseFiles

\* ---- the arguments the queries are called with ----
TimeArgs == {{}, {T10}}
LimitArgs == {-1, 0, 2, 5000}
SourceArgs == {"TimeSketch", "hunting"}
\* the calls made on a case that may lack its reports: 'sysmon' is a name
\* no operation knows
CaseToolsArgs == {"all", "hayabusa", "sysmon"}
ToolArgs == {"hayabusa", "chainsaw", "apthunter_timesketch", "sysmon"}

(***************************************************************************)
(* The job registry of mcp/server.py: run_analysis with its _reaper        *)
(* thread, and cancel_run.  Each critical section under _JOBS_LOCK is one  *)
(* step; what a thread does outside the lock (waiting for the process,     *)
(* joining the stream threads, sending signals) are steps of their own.    *)
(* subprocess.Popen is called without a new session or process group, so   *)
(* every job's process is in the server's own process group.               *)
(***************************************************************************)
JobIds == 1..MaxJobs
SIGTERM == 15
SIGKILL == 9
Terminal == {"completed", "failed", "cancelled"}

\* 'with _JOBS_LOCK' can be entered: no thread is inside such a block
LockFree == lock = "none"


JobsStart ==
    /\ JOBS = <<>>
    /\ launched = 0
    /\ server_alive = TRUE
    /\ os_proc = [j \in JobIds |-> "none"]
    /\ exit_code = [j \in JobIds |-> {}]
    /\ signalled = [j \in JobIds |-> 0]
    /\ reaper = [j \in JobIds |-> "none"]
    /\ cancel_pc = "idle"
    /\ cancel_call = [job_id |-> 0, proc |-> 0, already_exited |-> FALSE]
    /\ cancel_response = [kind |-> "none"]
    /\ run_response = [kind |-> "none"]
    /\ job_key = [p \in JobIds |-> 0]
    /\ pipe = [p \in JobIds |-> 0]
    /\ output_lines = [p \in JobIds |-> <<>>]
    /\ lock = "none"
    /\ status_call = [pc |-> "idle"]
    /\ status_response = [kind |-> "none"]

\* _JOBS[job_id] = entry
PutJob(jobs, job_id, entry) ==
    [k \in DOMAIN jobs \cup {job_id} |->
        IF k = job_id THEN entry ELSE jobs[k]]

\* del _JOBS[job_id]
DelJob(jobs, job_id) == [k \in DOMAIN jobs \ {job_id} |-> jobs[k]]

\* what run_analysis finds on the host: whether case_dir is a directory,
\* whether the docker executable is installed and the image built, whether
\* script_path was given and the script is found, whether Popen succeeds
RunEnvs ==
    [is_dir : BOOLEAN, docker : {"not installed", "no image", "image"},
     script_path : BOOLEAN, script_found : BOOLEAN, spawn_ok : BOOLEAN]

\* the way run_analysis ends on a host.  'use_docker = script_path is None';
\* subprocess.run(["docker", "image", "inspect", ...]) is not in a try block,
\* so it raises FileNotFoundError where docker is not installed
RunOutcome(env) ==
    LET use_docker == ~env.script_path /\ env.docker = "image" IN
    IF ~env.is_dir THEN "not a directory"
    ELSE IF ~env.script_path /\ env.docker = "not installed" THEN "raised"
    ELSE IF ~use_docker /\ ~env.script_found THEN "no runner"
    ELSE IF ~env.spawn_ok THEN "failed to start"
    ELSE "started"

\* run_analysis: the process is started, the job is registered as running
\* and its reaper thread started; or the call ends before it registers
RunAnalysis(env, job_id) ==
    /\ UNCHANGED notRegistryVars
    /\ server_alive
    /\ IF RunOutcome(env) = "started"
       THEN /\ launched < MaxJobs
            /\ LockFree
            /\ LET proc == launched + 1 IN
                 /\ launched' = proc
                 /\ os_proc' = [os_proc EXCEPT ![proc] = "running"]
                 /\ JOBS' = PutJob(JOBS, job_id,
                                   [started_at |-> proc,
                                    status |-> "running",
                                    return_code |-> {}, process |-> TRUE])
                 /\ reaper' = [reaper EXCEPT ![proc] = "wait"]
                 /\ job_key' = [job_key EXCEPT ![proc] = job_id]
                 /\ run_response' = [kind |-> "started", job_id |-> job_id]
       ELSE /\ run_response' =
                 IF RunOutcome(env) = "raised"
                 THEN [kind |-> "raised", error |-> "FileNotFoundError"]
                 ELSE [kind |-> "error", error |-> RunOutcome(env)]
            /\ UNCHANGED <<JOBS, launched, os_proc, reaper, job_key>>
    /\ UNCHANGED <<server_alive, exit_code, signalled, cancel_pc,
                   cancel_call, cancel_response>>

\* a job's process exits: on its own with 0 or 1, or killed by the signal it
\* was sent (Popen reports -signal); no signal is pending for it any more
JobProcessExits(j, code) ==
    /\ UNCHANGED notJobVars
    /\ os_proc[j] = "running"
    /\ \/ code \in {0, 1} /\ signalled[j] # SIGKILL
       \/ code = -signalled[j] /\ signalled[j] # 0
    /\ os_proc' = [os_proc EXCEPT ![j] = "zombie"]
    /\ exit_code' = [exit_code EXCEPT ![j] = {code}]
    /\ signalled' = [signalled EXCEPT ![j] = 0]
    /\ UNCHANGED <<JOBS, launched, server_alive, reaper,
                   cancel_pc, cancel_call, cancel_response>>

\* proc.wait() returns once the process has exited; the process is reaped
Exited(j) == os_proc[j] \in {"zombie", "reaped"}

\* _reaper: proc.wait()
ReaperWait(j) ==
    /\ UNCHANGED notJobVars
    /\ server_alive
    /\ reaper[j] = "wait"
    /\ Exited(j)
    /\ os_proc' = [os_proc EXCEPT ![j] = "reaped"]
    /\ reaper' = [reaper EXCEPT ![j] = "join"]
    /\ UNCHANGED <<JOBS, launched, server_alive, exit_code, signalled,
                   cancel_pc, cancel_call, cancel_response>>

\* _reaper: t_out.join(timeout=5); t_err.join(timeout=5); rc = proc.returncode
ReaperJoin(j) ==
    /\ UNCHANGED notJobVars
    /\ server_alive
    /\ reaper[j] = "join"
    /\ reaper' = [reaper EXCEPT ![j] = "update"]
    /\ UNCHANGED <<JOBS, launched, server_alive, os_proc, exit_code,
                   signalled, cancel_pc, cancel_call, cancel_response>>

\* a reaper that records every exit as a success
ReapedStatusCompleted(rc) == "completed"

\* the status _reaper records for a return code
ReapedStatus(rc) == IF rc = {0} THEN "completed" ELSE "failed"

\* a count that takes every registered job for finished
FinishedOrRunning(jobs) == DOMAIN jobs

\* the jobs _reaper counts as finished
Finished(jobs) == {k \in DOMAIN jobs : jobs[k].status \in Terminal}

\* 'while len(finished) > _MAX_FINISHED_JOBS': delete the oldest finished job
RECURSIVE Evict(_)
Evict(jobs) ==
    IF Cardinality(Finished(jobs)) > MAX_FINISHED_JOBS
    THEN LET oldest == CHOOSE k \in Finished(jobs) :
                         \A o \in Finished(jobs) :
                           jobs[k].started_at <= jobs[o].started_at
         IN Evict(DelJob(jobs, oldest))
    ELSE jobs

\* _reaper, under _JOBS_LOCK: record the exit, then evict
ReaperUpdate(j) ==
    /\ UNCHANGED notJobVars
    /\ server_alive
    /\ reaper[j] = "update"
    /\ LockFree
    /\ LET job_id == job_key[j] IN
         JOBS' = Evict(IF job_id \in DOMAIN JOBS
                       THEN PutJob(JOBS, job_id,
                                   [JOBS[job_id] EXCEPT
                                      !.status = ReapedStatus(exit_code[j]),
                                      !.return_code = exit_code[j],
                                      !.process = FALSE])
                       ELSE JOBS)
    /\ reaper' = [reaper EXCEPT ![j] = "done"]
    /\ UNCHANGED <<launched, server_alive, os_proc, exit_code, signalled,
                   cancel_pc, cancel_call, cancel_response>>

\* job['process'] of the entry under a job_id: the process of the last
\* run_analysis that registered that job_id
ProcOf(job_id) ==
    LET procs == {p \in JobIds : job_key[p] = job_id} IN
    IF procs = {} THEN 0
    ELSE CHOOSE p \in procs : \A q \in procs : q <= p

\* cancel_run, first critical section: unknown job, finished job, or go on
CancelLookup(j) ==
    /\ UNCHANGED notJobVars
    /\ server_alive
    /\ cancel_pc = "idle"
    /\ LockFree
    /\ cancel_call' = [job_id |-> j,
                       proc |-> IF j \in DOMAIN JOBS THEN ProcOf(j) ELSE 0,
                       already_exited |->
                           j \in DOMAIN JOBS /\ Exited(ProcOf(j))]
    /\ IF j \notin DOMAIN JOBS
       THEN /\ cancel_response' = [kind |-> "error"]
            /\ cancel_pc' = "idle"
       ELSE IF ~JOBS[j].process
       THEN /\ cancel_response' = [kind |-> "nothing to cancel",
                                   status |-> JOBS[j].status]
            /\ cancel_pc' = "idle"
       ELSE /\ cancel_response' = [kind |-> "pending"]
            /\ cancel_pc' = "terminate"
    /\ UNCHANGED <<JOBS, launched, server_alive, os_proc, exit_code,
                   signalled, reaper>>

\* os.killpg(os.getpgid(proc.pid), sig): the signal goes to every process of
\* the group, which is the server's: the running processes of all jobs.
\* A reaped process has no pid any more: os.getpgid raises ProcessLookupError
\* and proc.terminate() / proc.kill() do nothing once returncode is set.
KillpgTargets(j) ==
    IF os_proc[j] = "reaped"
    THEN {}
    ELSE {k \in JobIds : os_proc[k] = "running"}

\* the server is a member of the group the signal goes to
KillpgHitsServer(j) == os_proc[j] # "reaped"

Killpg(j, sig) ==
    [k \in JobIds |->
       IF k \in KillpgTargets(j) /\ signalled[k] # SIGKILL
       THEN sig ELSE signalled[k]]

\* a cancel_run that does not wait for the process after the signal
AfterSignalOptimistic == "update"

\* after the signal, 'proc.wait(timeout=5)'
AfterSignal == "wait"

\* cancel_run: the graceful signal.  The server is in the signalled group: it
\* goes on only if it handles SIGTERM.
CancelTerminate(survives) ==
    /\ UNCHANGED notJobVars
    /\ server_alive
    /\ cancel_pc = "terminate"
    /\ signalled' = Killpg(cancel_call.proc, SIGTERM)
    /\ server_alive' = (~KillpgHitsServer(cancel_call.proc) \/ survives)
    /\ cancel_pc' = AfterSignal
    /\ UNCHANGED <<JOBS, launched, os_proc, exit_code, reaper, cancel_call,
                   cancel_response>>

\* cancel_run: proc.wait(timeout=5) returns, the process has exited
CancelWaitReturns ==
    /\ UNCHANGED notJobVars
    /\ server_alive
    /\ cancel_pc \in {"wait", "wait_killed"}
    /\ Exited(cancel_call.proc)
    /\ os_proc' = [os_proc EXCEPT ![cancel_call.proc] = "reaped"]
    /\ cancel_pc' = "update"
    /\ UNCHANGED <<JOBS, launched, server_alive, exit_code, signalled,
                   reaper, cancel_call, cancel_response>>

\* cancel_run: proc.wait(timeout=5) raises TimeoutExpired, the process still
\* runs: SIGKILL to the group, which the server cannot handle
CancelKill ==
    /\ UNCHANGED notJobVars
    /\ server_alive
    /\ cancel_pc = "wait"
    /\ os_proc[cancel_call.proc] = "running"
    /\ signalled' = Killpg(cancel_call.proc, SIGKILL)
    /\ server_alive' = FALSE
    /\ cancel_pc' = "wait_killed"
    /\ UNCHANGED <<JOBS, launched, os_proc, exit_code, reaper, cancel_call,
                   cancel_response>>

\* cancel_run, second critical section
CancelUpdate ==
    /\ UNCHANGED notJobVars
    /\ server_alive
    /\ cancel_pc = "update"
    /\ LockFree
    /\ LET j == cancel_call.job_id
           rc == exit_code[cancel_call.proc]
       IN
         /\ JOBS' = IF j \in DOMAIN JOBS
                    THEN PutJob(JOBS, j,
                                [JOBS[j] EXCEPT
                                   !.status = "cancelled",
                                   !.return_code = rc,
                                   !.process = FALSE])
                    ELSE JOBS
         /\ cancel_response' = [kind |-> "cancelled", status |-> "cancelled",
                                return_code |-> rc]
    /\ cancel_pc' = "idle"
    /\ UNCHANGED <<launched, server_alive, os_proc, exit_code, signalled,
                   reaper, cancel_call>>

\* the job's process writes a line to stdout or stderr: the line is in the
\* pipe until a drain thread reads it
ProcWrites(j) ==
    /\ UNCHANGED <<notServerVars, jobVars, startVars, statusVars>>
    /\ os_proc[j] = "running"
    /\ Len(output_lines[j]) + pipe[j] < MaxLines
    /\ pipe' = [pipe EXCEPT ![j] = pipe[j] + 1]
    /\ UNCHANGED output_lines

\* _stream_output, one turn of 'for raw in stream': a drain thread of the
\* job reads a line and appends it under _JOBS_LOCK
StreamOutput(j) ==
    /\ UNCHANGED <<notServerVars, jobVars, startVars, statusVars>>
    /\ server_alive
    /\ pipe[j] > 0
    /\ LockFree
    /\ pipe' = [pipe EXCEPT ![j] = pipe[j] - 1]
    /\ output_lines' = [output_lines EXCEPT
                           ![j] = Append(output_lines[j],
                                         Len(output_lines[j]) + 1)]

\* get_run_status enters 'with _JOBS_LOCK' and looks the job up: an unknown
\* job_id is answered at once, else 'job' is the entry and the lock is held
StatusLookup(job_id, tail) ==
    /\ UNCHANGED <<notServerVars, jobVars, startVars, outputVars>>
    /\ server_alive
    /\ status_call.pc = "idle"
    /\ LockFree
    /\ IF job_id \notin DOMAIN JOBS
       THEN /\ status_response' = [kind |-> "error", job_id |-> job_id]
            /\ UNCHANGED <<lock, status_call>>
       ELSE /\ lock' = "get_run_status"
            /\ status_call' = [pc |-> "lines", job_id |-> job_id,
                               proc |-> ProcOf(job_id), tail |-> tail]
            /\ UNCHANGED status_response

\* 'lines = list(job["output_lines"])'
StatusReadLines ==
    /\ UNCHANGED <<notServerVars, jobVars, startVars, outputVars>>
    /\ server_alive
    /\ status_call.pc = "lines"
    /\ status_call' = [pc |-> "status", job_id |-> status_call.job_id,
                       proc |-> status_call.proc, tail |-> status_call.tail,
                       lines |-> output_lines[status_call.proc]]
    /\ UNCHANGED <<lock, status_response>>

\* 'status = job["status"]'
StatusReadStatus ==
    /\ UNCHANGED <<notServerVars, jobVars, startVars, outputVars>>
    /\ server_alive
    /\ status_call.pc = "status"
    /\ status_call' = [pc |-> "rc", job_id |-> status_call.job_id,
                       proc |-> status_call.proc, tail |-> status_call.tail,
                       lines |-> status_call.lines,
                       status |-> JOBS[status_call.job_id].status]
    /\ UNCHANGED <<lock, status_response>>

\* 'rc = job["return_code"]', the last read of the block
StatusReadCode ==
    /\ UNCHANGED <<notServerVars, jobVars, startVars, outputVars>>
    /\ server_alive
    /\ status_call.pc = "rc"
    /\ status_call' = [pc |-> "release", job_id |-> status_call.job_id,
                       proc |-> status_call.proc, tail |-> status_call.tail,
                       lines |-> status_call.lines,
                       status |-> status_call.status,
                       return_code |->
                           JOBS[status_call.job_id].return_code]
    /\ UNCHANGED <<lock, status_response>>

\* the end of the 'with _JOBS_LOCK' block, then 'shown' and the document
\* returned
StatusReturn ==
    /\ UNCHANGED <<notServerVars, jobVars, startVars, outputVars>>
    /\ server_alive
    /\ status_call.pc = "release"
    /\ lock' = "none"
    /\ status_response' =
           [kind |-> "status", job_id |-> status_call.job_id,
            status |-> status_call.status,
            return_code |-> status_call.return_code,
            output_lines_total |-> Len(status_call.lines),
            output_tail |-> Shown(status_call.lines, status_call.tail)]
    /\ status_call' = [pc |-> "idle"]

\* the subsystems a specification is not about stay as they start
RunIdle == RunStart /\ enable_retry = FALSE

(***************************************************************************)
(* Helpers of mcp/server.py called on their own: _time_in_range and the    *)
(* tail of get_run_status and get_tool_log.                                *)
(***************************************************************************)
\* the timestamps and bounds _time_in_range is called with: a bound is None,
\* '', a full timestamp, a timestamp with a fraction or a date
DateOnly == SubSeq(Date, 1, Len(Date) - 1)                 \* "2024-01-15"
FnCalls ==
    LET bounds == {{}, {<<>>}, {T10}, {T10Half}, {DateOnly}} IN
    [fn : {"_time_in_range"}, dt_str : {<<>>, T09, T10, T10Half, T11},
     start : bounds, end : bounds]
    \cup [fn : {"shown"}, lines : {LogLines(n) : n \in 0..MaxLines},
          tail : 0..(MaxLines + 1)]

FnIdle == fn_call = [fn |-> "none"] /\ fn_value = {}

InitFn ==
    /\ fn_call \in FnCalls
    /\ fn_value = {}
    /\ RunIdle
    /\ CacheStart
    /\ QueryStart
    /\ JobsStart

TimeInRangeReturns ==
    /\ UNCHANGED notFnVars
    /\ fn_call.fn = "_time_in_range"
    /\ fn_value = {}
    /\ fn_value' = {_time_in_range(fn_call.dt_str, fn_call.start, fn_call.end)}
    /\ UNCHANGED fn_call

ShownReturns ==
    /\ UNCHANGED notFnVars
    /\ fn_call.fn = "shown"
    /\ fn_value = {}
    /\ fn_value' = {Shown(fn_call.lines, fn_call.tail)}
    /\ UNCHANGED fn_call

NextFn ==
    \/ TimeInRangeReturns
    \/ ShownReturns

SpecFn == InitFn /\ [][NextFn]_vars

(***************************************************************************)
(* The specifications, one per subsystem.                                  *)
(***************************************************************************)
InitRun ==
    /\ RunStart
    /\ enable_retry \in BOOLEAN
    /\ CacheStart
    /\ QueryStart
    /\ JobsStart
    /\ FnIdle

NextRun ==
    \/ LaunchTool
    \/ MonitorEnter
    \/ \E t \in Tools, code \in ExitCodes : ProcessExit(t, code)
    \/ MonitorWhile
    \/ MonitorFor
    \/ MonitorSleep
    \/ MonitorFinal
    \/ RerunEnter
    \/ RetryStart
    \/ \E code \in ExitCodes : RetryExit(code)
    \/ RetryReturn

SpecRun == InitRun /\ [][NextRun]_vars

\* the steps of the thread that runs main: it is never blocked for ever (its
\* only waits are time.sleep(0.5) and subprocess.run)
MainStep ==
    \/ LaunchTool
    \/ MonitorEnter
    \/ MonitorWhile
    \/ MonitorFor
    \/ MonitorSleep
    \/ MonitorFinal
    \/ RerunEnter
    \/ RetryStart
    \/ \E code \in ExitCodes : RetryExit(code)
    \/ RetryReturn

\* the run with a main thread that keeps taking steps; whether a first-pass
\* process ever exits is left open
SpecRunLive == SpecRun /\ WF_vars(MainStep)

InitProgress ==
    /\ RunIdle
    /\ CacheStart
    /\ QueryStart
    /\ JobsStart
    /\ FnIdle

\* monitor_tools with its progress lines: the run up to the end of
\* monitor_tools, the tools writing their reports while they run
NextProgress ==
    \/ LaunchTool
    \/ MonitorEnter
    \/ \E t \in Tools : ProcessExit(t, 0)
    \/ \E t \in Tools : ArtifactGrows(t)
    \/ MonitorWhile
    \/ MonitorFor
    \/ \E dt \in {1, 2} : MonitorProgress(dt)
    \/ MonitorFinal

SpecProgress == InitProgress /\ [][NextProgress]_vars

\* the run on a host where a spawn may fail
NextLaunch ==
    \/ NextRun
    \/ LaunchToolRaises

SpecLaunch == InitRun /\ [][NextLaunch]_vars

InitCache ==
    /\ CacheStart
    /\ RunIdle
    /\ QueryStart
    /\ JobsStart
    /\ FnIdle

NextCache ==
    \/ \E p \in Paths : Describe(p)
    \/ \E p \in Paths : FsCreate(p)
    \/ \E p \in Files, grow \in BOOLEAN, tick \in BOOLEAN : FsWrite(p, grow, tick)

SpecCache == InitCache /\ [][NextCache]_vars

InitQuery ==
    /\ QueryStart
    /\ RunIdle
    /\ CacheStart
    /\ JobsStart
    /\ FnIdle

NextQuery ==
    \/ \E row \in HayabusaRows : HayabusaWrites(row)
    \/ \E g \in Range(ChainsawGroups), row \in ChainsawRows :
         ChainsawWrites(g, row)
    \/ \E row \in TimeSketchRows : AptHunterWrites(row)
    \* computer is None or "dc"
    \/ \E min_severity \in {{}, {"high"}, {"low"}},
          computer \in {{}, {<<100, 99>>}},
          start_time \in TimeArgs, end_time \in TimeArgs,
          limit \in LimitArgs :
         QueryHayabusa(min_severity, computer, start_time, end_time, limit)
    \/ \E start_time \in TimeArgs, end_time \in TimeArgs,
          min_severity \in {{}, {"high"}},
          tools \in {"all", "hayabusa, Chainsaw", "apthunter"},
          limit \in LimitArgs :
         GetMergedTimeline(start_time, end_time, min_severity, tools, limit)
    \/ \E group \in {{}, {"Lateral"}, {"powershell"}},
          start_time \in TimeArgs, limit \in LimitArgs :
         QueryChainsaw(group, start_time, {}, limit)
    \/ \E source \in SourceArgs, end_time \in TimeArgs, limit \in LimitArgs :
         QueryApthunter(source, {}, end_time, limit)

SpecQuery == InitQuery /\ [][NextQuery]_vars

\* the operations called on a case directory from before the orchestrator
\* has written anything
InitCase ==
    /\ NoRows
    /\ present = NothingPresent
    /\ RunIdle
    /\ CacheStart
    /\ JobsStart
    /\ FnIdle

NextCase ==
    \/ CreateOutputDir
    \/ HayabusaLogs
    \/ \E row \in HayabusaRows : HayabusaWrites(row)
    \/ \E g \in Range(ChainsawGroups), row \in ChainsawRows :
         ChainsawWrites(g, row)
    \/ \E row \in TimeSketchRows : AptHunterWrites(row)
    \/ \E limit \in {0, 1, 600} : QueryHayabusa({}, {}, {}, {}, limit)
    \/ \E limit \in {0, 1, 600} : QueryChainsaw({}, {}, {}, limit)
    \/ \E source \in SourceArgs : QueryApthunter(source, {}, {}, 0)
    \/ \E tools \in CaseToolsArgs : GetMergedTimeline({}, {}, {}, tools, 0)
    \* the keywords "DC1" and "2024"
    \/ \E keyword \in {DC1, <<50, 48, 50, 52>>}, tools \in CaseToolsArgs,
          limit \in {0, 1, 600} :
         SearchAll(keyword, tools, limit)
    \/ \E tool \in ToolArgs, min_count \in {1, 2} :
         GetUniqueValues(tool, "Computer", min_count)
    \/ \E tool \in ToolArgs, tail \in 0..(MaxLines + 1) :
         GetToolLog(tool, tail)

SpecCase == InitCase /\ [][NextCase]_vars


InitJobs ==
    /\ JobsStart
    /\ RunIdle
    /\ CacheStart
    /\ QueryStart
    /\ FnIdle

NextJobs ==
    \* on the hosts on which run_analysis starts the process
    \/ \E env \in {e \in RunEnvs : RunOutcome(e) = "started"} :
         RunAnalysis(env, launched + 1)
    \/ \E j \in JobIds, code \in {0, 1, -SIGTERM, -SIGKILL} :
         JobProcessExits(j, code)
    \/ \E j \in JobIds : ReaperWait(j)
    \/ \E j \in JobIds : ReaperJoin(j)
    \/ \E j \in JobIds : ReaperUpdate(j)
    \/ \E j \in JobIds : CancelLookup(j)
    \/ \E survives \in BOOLEAN : CancelTerminate(survives)
    \/ CancelWaitReturns
    \/ CancelKill
    \/ CancelUpdate

SpecJobs == InitJobs /\ [][NextJobs]_vars

\* the registry with reaper threads that keep taking steps while the server
\* runs: each is a daemon thread of its own, blocked only in proc.wait()
\* and in the two joins, which time out
SpecJobsLive ==
    /\ SpecJobs
    /\ \A j \in JobIds :
         /\ WF_vars(ReaperWait(j))
         /\ WF_vars(ReaperJoin(j))
         /\ WF_vars(ReaperUpdate(j))

\* the registry with the output of the jobs: their processes write lines
\* and the drain threads append them
NextOutput ==
    \/ NextJobs
    \/ \E j \in JobIds : ProcWrites(j)
    \/ \E j \in JobIds : StreamOutput(j)

SpecOutput == InitJobs /\ [][NextOutput]_vars

\* get_run_status calls racing with cancel_run, the reapers and the drain
\* threads of the jobs started, MaxPolled of them
NextStatus ==
    \/ \E env \in {e \in RunEnvs : RunOutcome(e) = "started"} :
         launched < MaxPolled /\ RunAnalysis(env, launched + 1)
    \/ \E j \in JobIds, code \in {0, 1, -SIGTERM, -SIGKILL} :
         JobProcessExits(j, code)
    \/ \E j \in JobIds : ReaperWait(j)
    \/ \E j \in JobIds : ReaperJoin(j)
    \/ \E j \in JobIds : ReaperUpdate(j)
    \/ \E j \in JobIds : CancelLookup(j)
    \/ \E survives \in BOOLEAN : CancelTerminate(survives)
    \/ CancelWaitReturns
    \/ CancelKill
    \/ CancelUpdate
    \/ \E j \in JobIds : ProcWrites(j)
    \/ \E j \in JobIds : StreamOutput(j)
    \/ \E job_id \in JobIds, tail \in {1, 60} : StatusLookup(job_id, tail)
    \/ StatusReadLines
    \/ StatusReadStatus
    \/ StatusReadCode
    \/ StatusReturn

SpecStatus == InitJobs /\ [][NextStatus]_vars

\* the thread that serves get_run_status keeps running while the server
\* does, and every 'with _JOBS_LOCK' block entered is left
SpecStatusLive ==
    /\ SpecStatus
    /\ WF_vars(StatusReadLines)
    /\ WF_vars(StatusReadStatus)
    /\ WF_vars(StatusReadCode)
    /\ WF_vars(StatusReturn)

\* run_analysis on every host, with the jobs it starts exiting and reaped
NextStart ==
    \/ \E env \in RunEnvs : RunAnalysis(env, launched + 1)
    \/ \E j \in JobIds, code \in {0, 1} : JobProcessExits(j, code)
    \/ \E j \in JobIds : ReaperWait(j)
    \/ \E j \in JobIds : ReaperJoin(j)
    \/ \E j \in JobIds : ReaperUpdate(j)

SpecStart == InitJobs /\ [][NextStart]_vars

\* run_analysis with the job_id it draws, 'str(uuid.uuid4())[:8]': any value
\* of the identifier space, among them the keys the registry holds
NextIds ==
    \/ \E env \in {e \in RunEnvs : RunOutcome(e) = "started"},
          job_id \in JobIds : RunAnalysis(env, job_id)
    \/ \E j \in JobIds, code \in {0, 1} : JobProcessExits(j, code)
    \/ \E j \in JobIds : ReaperWait(j)
    \/ \E j \in JobIds : ReaperJoin(j)
    \/ \E j \in JobIds : ReaperUpdate(j)

SpecIds == InitJobs /\ [][NextIds]_vars

(***************************************************************************)
(* Claims about the synchronous run.                                       *)
(***************************************************************************)
ToolIndex(t) == CHOOSE i \in DOMAIN ToolList : ToolList[i] = t
MonitorReturned == pc \in {"rerun", "retry_for", "retry_run", "done"}
\* the tools whose running->finished transition was printed
ReportedFinished == UNION {Range(printed[i]) : i \in DOMAIN printed}
Occurrences(s, x) == Cardinality({i \in DOMAIN s : s[i] = x})

\* C1: when monitor_tools has returned, the 'Finished tools' transition of
\* every launched tool has been printed (none is dropped).
C1_EveryTransitionReported ==
    MonitorReturned => \A t \in Tools : t \in ReportedFinished

\* C8: with enable_retry = false, rerun_failed_tools starts no process,
\* changes no return_code and returns exactly the tools whose return_code is
\* neither 0 nor None.
C8_RetryDisabledOnlyReports ==
    [][~enable_retry =>
         /\ retry_process' = retry_process
         /\ retried' = retried
         /\ pc = "rerun" =>
               /\ pc' = "done"
               /\ return_code' = return_code
               /\ returned' = {SelectSeq(ToolList,
                                  LAMBDA t : return_code[t] \notin {{0}, {}})}
       ]_vars

C8_Witness ==
    /\ pc = "done"
    /\ ~enable_retry
    /\ \E t \in Tools : returned = {<<t>>} /\ return_code[t] = {1}

\* C9: with enable_retry = true, rerun_failed_tools executes each tool whose
\* return_code is non-zero exactly once, never executes a tool whose
\* return_code is 0 or None, and executes no tool a second time when its
\* retry fails.  (At the call, return_code is the first-pass exit status.)
C9_RetryEachFailedToolOnce ==
    /\ pc = "rerun" => return_code = exit_status
    /\ \A t \in Tools : Occurrences(retried, t) <= 1
    /\ \A t \in Range(retried) : exit_status[t] \notin {{0}, {}}
    /\ (pc = "done" /\ enable_retry) =>
          \A t \in Tools : exit_status[t] # {0} => Occurrences(retried, t) = 1

C9_Witness ==
    /\ pc = "done"
    /\ enable_retry
    /\ \E t, u \in Tools :
          /\ exit_status[t] = {0} /\ t \notin Range(retried)
          /\ exit_status[u] = {1} /\ u \in Range(retried)
          /\ return_code[u] = {1}

\* C10: while a retried process runs no other tool process runs, neither a
\* first-pass process nor another retry, and retries start in tool-list order.
C10_RetriesAreSerial ==
    /\ \A t \in Tools : retry_process[t] = "running" =>
          /\ \A u \in Tools : process[u] # "running"
          /\ \A u \in Tools \ {t} : retry_process[u] # "running"
    /\ \A i, j \in DOMAIN retried :
          i < j => ToolIndex(retried[i]) < ToolIndex(retried[j])

C10_Witness ==
    /\ Len(retried) = 2
    /\ retry_process[retried[1]] = "exited"
    /\ retry_process[retried[2]] = "running"

\* C11: if every launched process eventually exits, monitor_tools eventually
\* returns; it never returns while a launched process is still running,
\* whatever the other tools exited with; and when it returns every launched
\* tool has its exit code in return_code.
C11_MonitorReturnsWhenAllExited ==
    /\ [](MonitorReturned =>
            \A t \in Tools : process[t] = "exited" /\ return_code[t] # {})
    /\ (\A t \in Tools : <>(process[t] = "exited")) => <>MonitorReturned

C11_Witness ==
    /\ pc = "rerun"
    /\ \E t, u \in Tools :
          /\ ToolIndex(t) < ToolIndex(u)
          /\ exit_order = <<t, u>> \o <<CHOOSE v \in Tools : v \notin {t, u}>>
          /\ return_code[t] = {1}
          /\ return_code[u] = {0}
          /\ Len(printed) = 2

\* the tool whose finished transition a printed line reports: the last name
\* of the line
ReportedBy(line) == line[Len(line)]

\* C12: monitor_tools never reports the finished transition of the same
\* tool more than once.
C12_NoTransitionReportedTwice ==
    /\ \A i, j \in DOMAIN printed :
          i # j => ReportedBy(printed[i]) # ReportedBy(printed[j])
    /\ \A t \in Tools : Occurrences(finished_order, t) <= 1

\* two tools reported in different passes of the while loop, the first of
\* them polled again after its report
C12_Witness ==
    /\ Len(printed) = 2
    /\ pc = "monitor_for"
    /\ idx = 2
    /\ printed[1] = <<ToolList[1]>>
    /\ printed[2] = <<ToolList[1], ToolList[2]>>
    /\ process[ToolList[3]] = "running"

ExitPosition(t) == CHOOSE i \in DOMAIN exit_order : exit_order[i] = t

\* C13: the names of the printed 'Finished tools' list are in the order in
\* which their processes exited.
C13_FinishedInExitOrder ==
    \A i, j \in DOMAIN finished_order :
       i < j => ExitPosition(finished_order[i]) < ExitPosition(finished_order[j])

(***************************************************************************)
(* Claims about the artifact cache.                                        *)
(***************************************************************************)
\* the step is a top-level describe_artifact call
IsDescribeStep == ncalls' # ncalls
\* the latest describe_artifact call for p saw the signature p has now
SignatureUnchanged(p) ==
    \E d \in described[p] : d[1] = artifact_signature(p)
\* the summary says what the filesystem holds now
IsFresh(p, summary) ==
    /\ summary.exists = fs[p].exists
    /\ fs[p].exists /\ ~IsDir(p) =>
         summary.size_bytes = fs[p].size /\ summary.details = {fs[p].ver}
    /\ fs[p].exists /\ IsDir(p) =>
         summary.type = "directory"
         /\ summary.size_bytes = SumSizes(DirChildren)

\* C6: a describe_artifact(P) call that finds P's signature as the previous
\* describe_artifact(P) call found it returns the summary that call returned
\* and does not invoke _describe_artifact_uncached for P.
C6_UnchangedSignatureHitsCache ==
    [][IsDescribeStep =>
         LET p == last_call'.path IN
           \A d \in described[p] :
             d[1] = artifact_signature(p) =>
               /\ last_call'.summary = d[2]
               /\ p \notin last_call'.computed
      ]_vars

C6_Witness ==
    /\ ncalls = 2
    /\ DOMAIN ARTIFACT_CACHE = {"report.csv"}
    /\ last_call.path = "report.csv"
    /\ last_call.computed = {}
    /\ last_call.summary.exists
    /\ last_call.summary.details = {1}

\* C7: a describe_artifact(P) call that finds P's signature changed since the
\* previous call for P (or finds no previous call) computes a fresh summary
\* and stores (new signature, new summary) for P; a call is served from the
\* cache only on an exact signature match; and the cache holds, for each
\* path, the one entry of the latest describe_artifact call for that path.
C7_StepInvalidates ==
    IsDescribeStep =>
      LET p == last_call'.path IN
        /\ ~SignatureUnchanged(p) =>
             /\ p \in last_call'.computed
             /\ IsFresh(p, last_call'.summary)
             /\ p \in DOMAIN ARTIFACT_CACHE'
             /\ ARTIFACT_CACHE'[p] =
                  <<artifact_signature(p), last_call'.summary>>
        /\ p \notin last_call'.computed => SignatureUnchanged(p)

C7_ChangedSignatureInvalidates ==
    /\ [][C7_StepInvalidates]_vars
    /\ [](/\ DOMAIN ARTIFACT_CACHE \subseteq Paths
          /\ \A p \in Paths :
               /\ described[p] = {} => p \notin DOMAIN ARTIFACT_CACHE
               /\ described[p] # {} =>
                    /\ p \in DOMAIN ARTIFACT_CACHE
                    /\ described[p] = {ARTIFACT_CACHE[p]})

C7_Witness ==
    /\ ncalls = 2
    /\ DOMAIN ARTIFACT_CACHE = {"report.csv"}
    /\ last_call.path = "report.csv"
    /\ last_call.computed = {"report.csv"}
    /\ last_call.summary.size_bytes = 1
    /\ ARTIFACT_CACHE["report.csv"][1] = <<TRUE, FALSE, {1}, {1}>>

\* the signature of a path that does not exist
MissingSignature == <<FALSE, FALSE, {}, {}>>

\* C22: describe_artifact on a path that does not exist returns a summary
\* with exists = false and stores it; a further call while the path is still
\* missing returns it without computing; and the first call after the path
\* was created computes a summary with exists = true.
C22_MissingPathIsCached ==
    [][IsDescribeStep =>
         LET p == last_call'.path
             seen_missing == \E d \in described[p] : d[1] = MissingSignature
         IN /\ ~fs[p].exists =>
                 /\ ~last_call'.summary.exists
                 /\ p \in DOMAIN ARTIFACT_CACHE'
                 /\ ARTIFACT_CACHE'[p] =
                      <<MissingSignature, last_call'.summary>>
                 /\ seen_missing => p \notin last_call'.computed
            /\ (fs[p].exists /\ seen_missing) =>
                 /\ p \in last_call'.computed
                 /\ last_call'.summary.exists
      ]_vars

\* the report was described while missing and again after it was created
C22_Witness ==
    /\ ncalls = 2
    /\ now = 1
    /\ DOMAIN ARTIFACT_CACHE = {"report.csv"}
    /\ fs["report.csv"].exists
    /\ fs["report.csv"].ver = 0
    /\ last_call.path = "report.csv"
    /\ last_call.computed = {"report.csv"}
    /\ last_call.summary.exists

(***************************************************************************)
(* Claims about the query layer.                                           *)
(***************************************************************************)
\* level a is at least as severe as level b in the order
\* critical > high > medium > low > informational
SeverityOf(level) ==
    CASE LowerLevel(level) = "critical" -> 5
      [] LowerLevel(level) = "high" -> 4
      [] LowerLevel(level) = "medium" -> 3
      [] LowerLevel(level) = "low" -> 2
      [] LowerLevel(level) = "informational" -> 1
      [] OTHER -> 0
AtLeastAsSevere(a, b) == SeverityOf(a) >= SeverityOf(b)

\* C4: query_hayabusa with min_severity = s returns exactly the rows that pass
\* the other filters and whose Level is at least as severe as s.
C4_MinSeverityIsAFloor ==
    response.op = "query_hayabusa" =>
      \A s \in response.min_severity :
        LET expected ==
              SelectSeq(hayabusa_csv, LAMBDA row :
                  /\ _match_row(row, response.computer)
                  /\ _time_in_range(row.Datetime, response.start_time,
                                    response.end_time)
                  /\ AtLeastAsSevere(row.Level, s))
        IN /\ response.result.total_matched = Len(expected)
           /\ response.result.rows =
                SubSeq(expected, 1,
                       Min(Len(expected),
                           ClampLimit(response.limit, QueryLimitMax)))

\* C5: every record of a get_merged_timeline result lies in the requested
\* time range and is at least as severe as min_severity, whatever its tool.
C5_TimelineFiltersEveryFamily ==
    response.op = "get_merged_timeline" =>
      \A i \in DOMAIN response.result.rows :
        LET e == response.result.rows[i] IN
          /\ _time_in_range(e.timestamp, response.start_time,
                            response.end_time)
          /\ \A s \in response.min_severity : AtLeastAsSevere(e.level, s)

IsQueryResult ==
    /\ response.op \in {"query_hayabusa", "query_chainsaw", "query_apthunter",
                        "get_merged_timeline"}
    /\ "rows" \in DOMAIN response.result

\* the hard maximum of the operation that answered
HardMax ==
    IF response.op = "get_merged_timeline" THEN TimelineLimitMax
    ELSE QueryLimitMax

\* the caller's limit brought into [1, hard maximum]
EffectiveLimit ==
    IF response.limit < 1 THEN 1
    ELSE IF response.limit > HardMax THEN HardMax
    ELSE response.limit

IsTimeline == response.op = "get_merged_timeline"

\* the events that match the arguments of the timeline that answered
MatchingEvents ==
    CollectEvents(response.start_time, response.end_time,
                  response.min_severity, response.tools)

\* C15: the rows of a get_merged_timeline result are in ascending order of
\* timestamp (compared as strings), and they are the earliest
\* min(limit, total_matched) matching events: each row is a matching event,
\* and no matching event left out is earlier than a returned row.
C15_TimelineSortedEarliestFirst ==
    IsTimeline =>
      LET rows == response.result.rows
          all == MatchingEvents
      IN /\ \A i \in 1..(Len(rows) - 1) :
               ~StrLess(rows[i + 1].timestamp, rows[i].timestamp)
         /\ Len(rows) = Min(Len(all), EffectiveLimit)
         /\ \A e \in Range(rows) : Occurrences(rows, e) <= Occurrences(all, e)
         /\ \A e \in Range(all) :
               Occurrences(rows, e) < Occurrences(all, e) =>
                 \A i \in DOMAIN rows : ~StrLess(e.timestamp, rows[i].timestamp)

\* two events of two tools collected latest first: returned earliest first,
\* and cut to the earliest when the limit is 1
C15_Witness ==
    /\ IsTimeline
    /\ Len(MatchingEvents) = 2
    /\ MatchingEvents[1].tool = "hayabusa"
    /\ MatchingEvents[2].tool = "apthunter"
    /\ StrLess(MatchingEvents[2].timestamp, MatchingEvents[1].timestamp)
    /\ \/ /\ response.limit = 2
          /\ response.result.rows = <<MatchingEvents[2], MatchingEvents[1]>>
       \/ /\ response.limit = 0
          /\ response.result.rows = <<MatchingEvents[2]>>

\* the events of a sequence that have the given timestamp, in their order
WithTimestamp(events, ts) == SelectSeq(events, LAMBDA e : e.timestamp = ts)

IsPrefix(a, b) == Len(a) <= Len(b) /\ a = SubSeq(b, 1, Len(a))

\* C16: in a get_merged_timeline result the records of one timestamp are in
\* the order they were collected: hayabusa, then chainsaw file by file in
\* sorted order, then apthunter, each in the order of its file; and asking
\* again with the same arguments while the artifacts are unchanged gives the
\* same rows.
C16_TiesKeepSourceOrder ==
    IsTimeline =>
      /\ \A i \in DOMAIN response.result.rows :
            LET ts == response.result.rows[i].timestamp IN
              IsPrefix(WithTimestamp(response.result.rows, ts),
                       WithTimestamp(MatchingEvents, ts))
      /\ get_merged_timeline(response.start_time, response.end_time,
                             response.min_severity, response.tools,
                             response.limit).rows = response.result.rows

\* two records of one timestamp from two tools, or from the two chainsaw
\* files, or from one file
C16_Witness ==
    /\ IsTimeline
    /\ Len(response.result.rows) = 2
    /\ response.result.rows[1].timestamp = response.result.rows[2].timestamp
    /\ response.result.rows[1] # response.result.rows[2]
    /\ \/ /\ response.result.rows[1].tool = "chainsaw"
          /\ response.result.rows[2].tool = "apthunter"
       \/ /\ response.result.rows[1].group = ChainsawGroups[1]
          /\ response.result.rows[2].group = ChainsawGroups[2]
       \/ /\ response.result.rows[1].tool = "hayabusa"
          /\ response.result.rows[2].tool = "hayabusa"

\* the closed vocabulary of severity levels
KnownLevels == {"critical", "high", "medium", "low", "informational"}

\* C24: a record whose severity is not in the vocabulary is ranked below
\* every known level: no query_hayabusa or get_merged_timeline result asked
\* with a min_severity that names a known level holds such a record.
C24_UnknownSeverityBelowEveryFloor ==
    (response.op \in {"query_hayabusa", "get_merged_timeline"}
     /\ "rows" \in DOMAIN response.result
     /\ response.min_severity \cap KnownLevels # {}) =>
       \A i \in DOMAIN response.result.rows :
          LET row == response.result.rows[i]
              level == IF response.op = "query_hayabusa"
                       THEN row.Level ELSE row.level
          IN LowerLevel(level) \in KnownLevels

\* C29: no row of a query_apthunter result lies outside the requested time
\* range, for the CSV sources as for the XLSX report.
C29_ApthunterTimeFilterEverySource ==
    (response.op = "query_apthunter" /\ "rows" \in DOMAIN response.result) =>
       \A i \in DOMAIN response.result.rows :
          _time_in_range(response.result.rows[i].datetime,
                         response.start_time, response.end_time)

(***************************************************************************)
(* Claims about the job registry.                                          *)
(***************************************************************************)
\* C2: once a job's status is completed, failed or cancelled, its status and
\* its return_code never change again while the job is in the registry.
C2_TerminalStatusIsFinal ==
    [][\A j \in DOMAIN JOBS \cap DOMAIN JOBS' :
         JOBS[j].status \in Terminal =>
           /\ JOBS'[j].status = JOBS[j].status
           /\ JOBS'[j].return_code = JOBS[j].return_code
      ]_vars

\* the step is a step of cancel_run
IsCancelStep ==
    <<cancel_pc, cancel_call, cancel_response>>'
      # <<cancel_pc, cancel_call, cancel_response>>

\* C3: a cancel_run call made for a registered job whose process has already
\* exited changes nothing in the registry and returns 'nothing to cancel'.
C3_CancelAfterExitChangesNothing ==
    [][(IsCancelStep /\ cancel_call'.already_exited) =>
         /\ JOBS' = JOBS
         /\ cancel_pc' = "idle" =>
              cancel_response'.kind = "nothing to cancel"
      ]_vars

\* the registered jobs that are completed, failed or cancelled
TerminalJobs(jobs) ==
    {k \in DOMAIN jobs : jobs[k].status \in {"completed", "failed", "cancelled"}}

\* the jobs a step removes from the registry
Evicted == DOMAIN JOBS \ DOMAIN JOBS'

\* C17: a step removes from the registry only jobs that are terminal when
\* they are removed (terminal before the step, or the job whose exit the
\* step records), never a job whose process runs; it leaves exactly
\* MAX_FINISHED_JOBS terminal jobs, and none of them started earlier than a
\* removed job.
C17_EvictsOnlyOldestTerminal ==
    [][\A d \in Evicted :
         /\ \/ JOBS[d].status \in Terminal
            \/ reaper[d] = "update" /\ reaper'[d] = "done"
         /\ os_proc[d] # "running"
         /\ Cardinality(TerminalJobs(JOBS')) = MAX_FINISHED_JOBS
         /\ \A k \in TerminalJobs(JOBS') :
               JOBS'[k].started_at >= JOBS[d].started_at
      ]_vars

\* the first job was evicted when a later job finished, and a later job is
\* retained
C17_Witness ==
    /\ launched >= 2
    /\ 1 \notin DOMAIN JOBS
    /\ Cardinality(TerminalJobs(JOBS)) = MAX_FINISHED_JOBS
    /\ \A k \in DOMAIN JOBS : JOBS[k].status \in Terminal

IsTerminateStep == cancel_pc = "terminate" /\ cancel_pc' # "terminate"
IsKillStep == cancel_pc # "wait_killed" /\ cancel_pc' = "wait_killed"

\* C19: cancel_run sends the forceful kill only after the graceful signal
\* and only while the process still runs (it did not exit within the grace
\* period), and after the kill the call goes on: it waits for the process
\* and returns.
C19_TerminateThenKill ==
    [][/\ IsKillStep =>
            /\ cancel_pc = "wait"
            /\ os_proc[cancel_call.job_id] = "running"
            /\ signalled[cancel_call.job_id] = SIGTERM
       /\ cancel_pc' = "wait_killed" => server_alive'
      ]_vars

\* C20: the signals of cancel_run(j) go to job j's process and to nothing
\* else: not to the process of another job, not to the server.
C20_SignalsOnlyTheJob ==
    [][(IsTerminateStep \/ IsKillStep) =>
         /\ KillpgTargets(cancel_call.job_id) \subseteq {cancel_call.job_id}
         /\ ~KillpgHitsServer(cancel_call.job_id)
         /\ \A k \in JobIds \ {cancel_call.job_id} :
               signalled'[k] = signalled[k]
         /\ server_alive'
      ]_vars
(***************************************************************************)
(* Claims about the helpers.                                               *)
(***************************************************************************)
\* a <= b for strings, position by position
LexLeq(a, b) ==
    \/ /\ Len(a) <= Len(b)
       /\ \A i \in 1..Len(a) : a[i] = b[i]
    \/ \E i \in 1..Min(Len(a), Len(b)) :
         /\ \A k \in 1..(i - 1) : a[k] = b[k]
         /\ a[i] < b[i]
\* the first 19 characters, or all of a shorter string
WholeSeconds(str) == [i \in 1..Min(19, Len(str)) |-> str[i]]
\* a bound that is None or '' is absent
Absent(bound) == bound = {} \/ bound = {<<>>}

\* C23: _time_in_range accepts a record iff its timestamp and the bounds,
\* each cut to its first 19 characters, satisfy start <= timestamp <= end
\* lexicographically, both bounds inclusive, an absent bound being no
\* constraint; date-only bounds and empty timestamps included.
C23_TimeInRangeComparesWholeSeconds ==
    (fn_call.fn = "_time_in_range" /\ fn_value # {}) =>
        fn_value =
          {/\ Absent(fn_call.start)
              \/ \A b \in fn_call.start :
                    LexLeq(WholeSeconds(b), WholeSeconds(fn_call.dt_str))
           /\ Absent(fn_call.end)
              \/ \A b \in fn_call.end :
                    LexLeq(WholeSeconds(fn_call.dt_str), WholeSeconds(b))}

\* a timestamp with a fraction is accepted by a bound of the same second
C23_Witness ==
    /\ fn_call.fn = "_time_in_range"
    /\ fn_call.dt_str = T10Half
    /\ fn_call.start = {DateOnly}
    /\ fn_call.end = {T10}
    /\ fn_value = {TRUE}

\* C30: the tail of get_run_status and get_tool_log is exactly the last
\* min(tail, total) lines for every tail >= 0, so never more than tail lines.
C30_TailIsLastMinLines ==
    (fn_call.fn = "shown" /\ fn_value # {}) =>
        LET total == Len(fn_call.lines)
            n == Min(fn_call.tail, total)
        IN fn_value = {SubSeq(fn_call.lines, total - n + 1, total)}

(***************************************************************************)
(* Claims about the operations on a case that may lack its reports.        *)
(***************************************************************************)
IsSearchResult ==
    /\ response.op = "search_all"
    /\ "results" \in DOMAIN response.result

\* the limit search_all works with
SearchLimit == Min(Max(1, response.limit), 500)

\* a tool the scan stopped for while more matches existed
ScanStoppedFor(t) == Len(KeywordRows(t, response.keyword)) > SearchLimit

\* C21: search_all returns at most the clamped limit of hits per tool, and
\* when more matches existed than it returned for a tool its response says
\* that the hits were truncated.
C21_SearchReportsTruncation ==
    IsSearchResult =>
        /\ \A t \in DOMAIN response.result.results :
               Len(response.result.results[t]) <= SearchLimit
        /\ (\E t \in DOMAIN response.result.results : ScanStoppedFor(t)) =>
               /\ "truncated" \in DOMAIN response.result
               /\ response.result.truncated = TRUE

\* the operations that take one tool name, and those that take a list
TakesToolName == {"get_unique_values", "get_tool_log"}
TakesToolList == {"get_merged_timeline", "search_all"}
ValidToolNames ==
    [get_unique_values |-> {"hayabusa", "chainsaw", "apthunter_timesketch"},
     get_tool_log |-> {"hayabusa", "apt_hunter", "chainsaw"}]
\* the tool names of a list as the caller wrote it
NamesOf(tools) ==
    CASE tools = "all" -> {"hayabusa", "chainsaw", "apthunter"}
      [] tools = "hayabusa, Chainsaw" -> {"hayabusa", "chainsaw"}
      [] OTHER -> {tools}
NamesUnknownTool ==
    \/ /\ response.op \in TakesToolName
       /\ response.tool \notin ValidToolNames[response.op]
    \/ /\ response.op \in TakesToolList
       /\ ~(NamesOf(response.tools) \subseteq
              {"hayabusa", "chainsaw", "apthunter"})

\* C25: on a case whose output directory exists, an operation given a tool
\* name outside its valid set returns a structured error, never an
\* exception and never a successful result.
C25_UnknownToolIsAnError ==
    (present.output_dir /\ NamesUnknownTool) =>
        "error" \in DOMAIN response.result

\* the query operations and whether what the call reads is missing
QueryOps ==
    {"query_hayabusa", "query_chainsaw", "query_apthunter",
     "get_merged_timeline", "search_all", "get_unique_values"}
ReadsMissing ==
    \/ ~present.output_dir
    \/ response.op = "query_hayabusa" /\ ~present.hayabusa
    \/ response.op = "query_chainsaw" /\ ~present.chainsaw
    \/ /\ response.op = "query_apthunter"
       /\ response.source = "TimeSketch"
       /\ ~present.timesketch

\* C26: a query operation on a case whose output directory or report file
\* is missing returns a result with an error field and never raises.
C26_MissingCaseIsAnError ==
    (response.op \in QueryOps /\ ReadsMissing) =>
        /\ "raised" \notin DOMAIN response.result
        /\ "error" \in DOMAIN response.result

(***************************************************************************)
(* Claims about run_analysis.                                              *)
(***************************************************************************)
IsRunAnalysisStep == run_response' # run_response

\* the call registered exactly one new job, running, and returned its id
RegisteredOneJob ==
    /\ run_response'.kind = "started"
    /\ \E j \in JobIds \ DOMAIN JOBS :
         /\ run_response'.job_id = j
         /\ DOMAIN JOBS' = DOMAIN JOBS \cup {j}
         /\ \A k \in DOMAIN JOBS : JOBS'[k] = JOBS[k]
         /\ JOBS'[j].status = "running"
         /\ JOBS'[j].return_code = {}
         /\ JOBS'[j].process
         /\ os_proc'[j] = "running"

\* C28: run_analysis either registers exactly one new job (running, no
\* return code, process handle present) and returns its job_id while the
\* process runs, or returns an error and leaves the registry unchanged.
C28_OneJobOrAnError ==
    [][IsRunAnalysisStep =>
         \/ RegisteredOneJob
         \/ run_response'.kind = "error" /\ JOBS' = JOBS
      ]_vars

(***************************************************************************)
(* Claims about a run in which a spawn fails.                              *)
(***************************************************************************)
\* C27: a spawn failure in launch_tools concerns that tool only: when the
\* run ends, every other tool has been launched and its exit code has been
\* collected.
C27_SpawnFailureIsPerTool ==
    pc = "raised" =>
        \A t \in Tools \ {ToolList[idx]} :
            /\ process[t] # "none"
            /\ return_code[t] # {}

(***************************************************************************)
(* Claims about the fields of a registered job.                            *)
(***************************************************************************)
\* C31: in every state of the registry a job is running iff its process
\* handle is present iff its return code is None; a completed job has
\* return code 0 and a failed job a non-zero integer.
C31_StatusHandleAndCodeAgree ==
    \A j \in DOMAIN JOBS :
        /\ (JOBS[j].status = "running") = JOBS[j].process
        /\ JOBS[j].process = (JOBS[j].return_code = {})
        /\ JOBS[j].status = "completed" => JOBS[j].return_code = {0}
        /\ JOBS[j].status = "failed" =>
              /\ JOBS[j].return_code # {}
              /\ \A rc \in JOBS[j].return_code : rc \in Int /\ rc # 0

\* a job that failed with 1 next to a job that still runs
C31_Witness ==
    \E j, k \in DOMAIN JOBS :
        /\ JOBS[j].status = "failed" /\ JOBS[j].return_code = {1}
        /\ ~JOBS[j].process
        /\ JOBS[k].status = "running" /\ JOBS[k].process

\* C34: the registry never holds more than _MAX_FINISHED_JOBS terminal
\* jobs, whatever the interleaving of exits, reapers and cancel_run calls.
C34_TerminalJobsBounded ==
    Cardinality({j \in DOMAIN JOBS : JOBS[j].status \in Terminal})
        <= MAX_FINISHED_JOBS

\* C35: every registered job whose process exits eventually has a terminal
\* status, its return code recorded and its process handle released (or has
\* left the registry by eviction), whether or not get_run_status or
\* cancel_run is ever called, given reaper threads that are scheduled.
C35_ExitedJobBecomesTerminal ==
    \A j \in JobIds :
        (j \in DOMAIN JOBS /\ Exited(j))
        ~> \/ j \notin DOMAIN JOBS
           \/ /\ JOBS[j].status \in Terminal
              /\ JOBS[j].return_code # {}
              /\ ~JOBS[j].process

(***************************************************************************)
(* Claims about a whole run of main.                                       *)
(***************************************************************************)
\* the edges a process may take: not started, running, exited
ProcessEdge(before, after) ==
    \/ after = before
    \/ before = "none" /\ after = "running"
    \/ before = "running" /\ after = "exited"

\* C37: over a whole run each tool goes pending -> running -> completed or
\* failed, with at most one further edge failed -> retrying -> completed or
\* failed: a tool that exited with 0 never runs again and no command is
\* executed more than twice.
C37_AtMostOneRetryOfAFailedTool ==
    [][\A t \in Tools :
         /\ ProcessEdge(process[t], process'[t])
         /\ ProcessEdge(retry_process[t], retry_process'[t])
         /\ (retry_process[t] = "none" /\ retry_process'[t] = "running") =>
               /\ process[t] = "exited"
               /\ exit_status[t] # {}
               /\ exit_status[t] # {0}
      ]_vars

\* a run that retried a failed tool and left a successful one alone
C37_Witness ==
    /\ pc = "done"
    /\ \E t, u \in Tools :
         /\ exit_status[t] = {1} /\ retry_process[t] = "exited"
         /\ exit_status[u] = {0} /\ retry_process[u] = "none"
         /\ process[u] = "exited"

\* C33: job identifiers are unique among tracked jobs: run_analysis never
\* assigns an identifier that is already a key of the registry, so
\* registering a new job never overwrites the entry of an existing job.
C33_NewJobIdIsFresh ==
    [][launched' # launched =>
         /\ run_response'.job_id \notin DOMAIN JOBS
         /\ \A k \in DOMAIN JOBS : k \in DOMAIN JOBS' /\ JOBS'[k] = JOBS[k]
      ]_vars

\* C36: a job's accumulated output lines only grow by appending at the
\* end, and only while the job's status is 'running': once the status is
\* terminal no line is appended any more, so output_lines_total never
\* decreases and is constant after a terminal status.
C36_OutputGrowsOnlyWhileRunning ==
    [][\A p \in JobIds :
         output_lines'[p] # output_lines[p] =>
           /\ Len(output_lines'[p]) = Len(output_lines[p]) + 1
           /\ SubSeq(output_lines'[p], 1, Len(output_lines[p]))
                  = output_lines[p]
           /\ job_key[p] \in DOMAIN JOBS =>
                  JOBS[job_key[p]].status = "running"
      ]_vars

\* what get_run_status has read when it leaves its 'with _JOBS_LOCK' block
\* is what the registry holds at that moment: one snapshot
SnapshotIsAtomic ==
    status_call.pc = "release" =>
        /\ status_call.job_id \in DOMAIN JOBS
        /\ status_call.status = JOBS[status_call.job_id].status
        /\ status_call.return_code = JOBS[status_call.job_id].return_code
        /\ status_call.lines = output_lines[status_call.proc]

\* C32: every read and write of a job's status, return_code, process handle
\* and output buffer is inside a _JOBS_LOCK critical section and the lock is
\* never held while waiting, joining or sleeping: a get_run_status call
\* racing with cancel_run, the reaper and the drain threads always completes,
\* and what it returns is one atomic snapshot.
C32_StatusCallCompletes ==
    /\ []SnapshotIsAtomic
    /\ (status_call.pc # "idle") ~> (status_call.pc = "idle")

\* C38: describe_artifact(D) of a directory reflects the current state of
\* its children: the summary it returns carries, for every child listed and
\* in its total size_bytes, the child's current size, as an uncached
\* computation would.
C38_DirectorySummaryIsCurrent ==
    [][(ncalls' = ncalls + 1 /\ last_call'.path = Dir /\ fs[Dir].exists) =>
         LET summary == last_call'.summary IN
           /\ summary.size_bytes = SumSizes(DirChildren)
           /\ \A i \in DOMAIN summary.contents :
                 summary.contents[i].size_bytes
                     = fs[summary.contents[i].name].size
           /\ summary = describe_artifact(<<>>, Dir).summary
      ]_vars

\* the tools whose final return code is not zero, in list order
FinalFailures == SelectSeq(ToolList, LAMBDA t : return_code[t] # {0})

\* C39: in monitor_tools a progress message for a tool is printed at a
\* sampling tick only if the tool's sampled (status, human-readable size)
\* differs from the sample last printed for it, a tool whose sampled state
\* is unchanged is never printed again, and the artifacts are sampled at
\* most once per progress_interval, whatever the polling does.
C39_ProgressPrintsOnlyChanges ==
    [][IF last_progress_print' # last_progress_print
       THEN /\ last_progress_print' - last_progress_print >= ProgressInterval
            /\ \A t \in Tools :
                  t \in progress_out'
                      <=> {progress_state(t, t \in running)} # last_printed[t]
       ELSE UNCHANGED <<progress_out, last_printed>>
      ]_vars

\* a sampling that printed one tool and left out another, whose reports
\* grew without a change of their human-readable size
C39_Witness ==
    /\ pc = "monitor_while"
    /\ last_progress_print = current_time
    /\ \E t, u \in Tools :
         /\ t \in progress_out
         /\ u \notin progress_out
         /\ artifact_bytes[u] = 1040
         /\ last_printed[u] = {<<"running", {human_size(1024)}>>}

\* C40: the list rerun_failed_tools returns, which main reports as the
\* failures, is exactly the tools whose final return_code is non-zero, with
\* retry enabled or disabled; so 'All tools completed successfully' is
\* printed iff every final return_code is 0.
C40_ReturnedFailuresAreTheNonZero ==
    pc = "done" => returned = {FinalFailures}

\* with retry enabled, one tool failed again and another succeeded on retry
C40_Witness ==
    /\ pc = "done"
    /\ enable_retry
    /\ \E t, u \in Tools :
         /\ t # u
         /\ retry_process[t] = "exited" /\ return_code[t] = {1}
         /\ retry_process[u] = "exited" /\ return_code[u] = {0}
         /\ returned = {<<t>>}

====
